---- MODULE Spec2Model ----
(***************************************************************************)
(* Service worker of the Riverside PWA (src/unnamed/part_000, the latest   *)
(* revision of service-worker.js): request routing, the byte-range slicer, *)
(* the two trims, the pin / unpin / delete commands, install and activate. *)
(***************************************************************************)
EXTENDS Integers, Sequences, FiniteSets, TLC

VARIABLES
    fullResponse,   \* serveRangeFromFullResponse: the Response object it is given
    rangeHeader,    \* serveRangeFromFullResponse: request.headers.get('range')
    sliced,         \* the results of the calls made so far, in order
    cache,          \* the cache CACHE_NAME: its entries, in insertion order
    pins,           \* the object store PIN_STORE: key (url) -> timestamp
    api,            \* the object store API_STORE: key (url) -> record
    task,           \* the async functions in flight: handlers, commands, trims
    phase,          \* the worker's lifecycle: "parsed", "installing", "installed",
                    \* "activating", "activated"
    generations,    \* CacheStorage: the names of the caches that exist
    activate,       \* the activate handler: the keys it read, its deletes pending
    started,        \* the number of fetch and message events handled so far
    now,            \* Date.now()
    putLog,         \* history: the (call site, status) of every cache.put call
    autoPinned,     \* history: urls whose media cache-miss task has completed
    db,             \* getDB: dbPromise, the indexedDB.open calls, the callers
    pwa             \* app.js: the page's install-prompt state and localStorage

vars == <<fullResponse, rangeHeader, sliced, cache, pins, api, task, phase,
          generations, activate, started, now, putLog, autoPinned, db, pwa>>
appVars == <<db, pwa>>
lifeVars == <<generations, activate>>
slicerVars == <<fullResponse, rangeHeader, sliced>>
storeVars == <<cache, pins, api>>

----------------------------------------------------------------------------
(* Bounds of the model *)

MaxHdrLen == 5      \* longest range header, in tokens
MaxSize == 3        \* largest payload, in bytes
MaxTime == 2        \* latest timestamp

----------------------------------------------------------------------------
(* Values *)

Null == <<"null">>                  \* headers.get() of an absent header
NoType == "null"                    \* no Content-Type header
Digits == {"0", "1", "2"}
\* A header value is a sequence of tokens: the literal "bytes=", decimal
\* digits, "-", "," and "x" for any other character.
HdrTokens == {"bytes="} \cup Digits \cup {"-", ",", "x"}

DigitVal(d) == CASE d = "0" -> 0 [] d = "1" -> 1 [] d = "2" -> 2

RECURSIVE SeqsUpTo(_, _)
SeqsUpTo(S, n) ==
    IF n = 0 THEN {<<>>}
    ELSE LET shorter == SeqsUpTo(S, n - 1)
         IN shorter \cup {Append(s, x) : s \in {q \in shorter : Len(q) = n - 1}, x \in S}

\* The stored payload of n bytes: byte i holds 10 + i, so slices are told apart.
Payload(n) == [i \in 1..n |-> 10 + i]

----------------------------------------------------------------------------
(* Responses *)

\* A Content-Range header: bytes first-last/size, or bytes */size.
NoContentRange == [star |-> FALSE, first |-> -1, last |-> -1, size |-> -1]
ContentRange(first, last, size) ==
    [star |-> FALSE, first |-> first, last |-> last, size |-> size]
ContentRangeStar(size) == [star |-> TRUE, first |-> -1, last |-> -1, size |-> size]

\* A Response object. contentLength -1 and acceptRanges "null": header not set.
\* bodyNull: constructed with a null body. bodyUsed: the body stream was read.
Response(status, ctype, body) ==
    [status |-> status, ctype |-> ctype, contentRange |-> NoContentRange,
     acceptRanges |-> "null", contentLength |-> -1,
     body |-> body, bodyNull |-> FALSE, bodyUsed |-> FALSE]

\* new Response(null, { status, headers: { 'Content-Range': cr } })
NullResponse(status, cr) ==
    [status |-> status, ctype |-> NoType, contentRange |-> cr,
     acceptRanges |-> "null", contentLength |-> -1,
     body |-> <<>>, bodyNull |-> TRUE, bodyUsed |-> FALSE]

\* What a call that throws yields: response.clone() of a used body is a TypeError.
TypeError == [NullResponse(0, NoContentRange) EXCEPT !.status = -1]

----------------------------------------------------------------------------
(* serveRangeFromFullResponse *)

\* Number(str) of a string of decimal digits
RECURSIVE Number(_)
Number(ds) ==
    IF ds = <<>> THEN 0
    ELSE 10 * Number(SubSeq(ds, 1, Len(ds) - 1)) + DigitVal(ds[Len(ds)])

\* the length of the longest run of digits of h that starts at position i
RECURSIVE DigitRun(_, _)
DigitRun(h, i) ==
    IF i <= Len(h) /\ h[i] \in Digits THEN 1 + DigitRun(h, i + 1) ELSE 0

\* /bytes=(\d+)-(\d+)?/ matches h from position i on
MatchesAt(h, i) ==
    /\ h[i] = "bytes="
    /\ DigitRun(h, i + 1) >= 1
    /\ i + 1 + DigitRun(h, i + 1) <= Len(h)
    /\ h[i + 1 + DigitRun(h, i + 1)] = "-"

\* /bytes=(\d+)-(\d+)?/.exec(h): the leftmost match. ok FALSE: null.
\* m2 = <<>>: the second group did not take part (undefined).
RangeExec(h) ==
    IF h # Null /\ \E i \in 1..Len(h) : MatchesAt(h, i)
    THEN LET i == CHOOSE k \in 1..Len(h) :
                      MatchesAt(h, k) /\ \A j \in 1..(k - 1) : ~MatchesAt(h, j)
             n1 == DigitRun(h, i + 1)
             n2 == DigitRun(h, i + 2 + n1)
         IN [ok |-> TRUE,
             m1 |-> SubSeq(h, i + 1, i + n1),
             m2 |-> SubSeq(h, i + 2 + n1, i + 1 + n1 + n2)]
    ELSE [ok |-> FALSE, m1 |-> <<>>, m2 |-> <<>>]

\* buf.slice(from, to) of an ArrayBuffer: bytes from..to-1, 0-based
BufSliceShort(buf, from, to) == SubSeq(buf, from + 1, to - 1)
BufSlice(buf, from, to) == SubSeq(buf, from + 1, to)

\* fullResponse.clone(): a copy with its own body stream; throws when the
\* body of the original was read already. The original is left as it is.
Clone(full) == IF full.bodyUsed THEN TypeError ELSE full

\* fullResponse.clone().arrayBuffer(): the bytes, read from a clone, so the
\* body of the Response object itself stays unread.
ReadBufferNoClone(full) ==
    [ok |-> ~full.bodyUsed, buf |-> full.body, full |-> [full EXCEPT !.bodyUsed = TRUE]]
ReadBuffer(full) ==
    [ok |-> ~full.bodyUsed, buf |-> full.body, full |-> full]

\* (typeof end === 'number' && end < size) ? end : size - 1
RealEnd(hasEnd, end, size) == IF hasEnd /\ end < size THEN end ELSE size - 1

\* start >= size || start > realEnd
UnsatisfiableStartOnly(start, realEnd, size) == start >= size
Unsatisfiable(start, realEnd, size) == start >= size \/ start > realEnd

\* The call serveRangeFromFullResponse(full, request) where hdr is
\* request.headers.get('range'): resp is the value it resolves to, full the
\* Response object it was given, as the call leaves it.
serveRangeFromFullResponse(full, hdr) ==
    IF hdr = Null \/ hdr = <<>>
    THEN [resp |-> Clone(full), full |-> full]
    ELSE LET matches == RangeExec(hdr) IN
         IF ~matches.ok
         THEN [resp |-> NullResponse(416, NoContentRange), full |-> full]
         ELSE LET start == Number(matches.m1)
                  hasEnd == matches.m2 # <<>>
                  end == Number(matches.m2)
                  rd == ReadBuffer(full)
                  buf == rd.buf
                  size == Len(buf)
                  realEnd == RealEnd(hasEnd, end, size)
              IN IF ~rd.ok
                 THEN [resp |-> TypeError, full |-> rd.full]
                 ELSE IF Unsatisfiable(start, realEnd, size)
                 THEN [resp |-> NullResponse(416, ContentRangeStar(size)),
                       full |-> rd.full]
                 ELSE LET chunk == BufSlice(buf, start, realEnd + 1) IN
                      [resp |-> [status |-> 206,
                                 ctype |-> IF rd.full.ctype # NoType
                                           THEN rd.full.ctype ELSE "video/mp4",
                                 contentRange |-> ContentRange(start, realEnd, size),
                                 acceptRanges |-> "bytes",
                                 contentLength |-> Len(chunk),
                                 body |-> chunk, bodyNull |-> FALSE,
                                 bodyUsed |-> FALSE],
                       full |-> rd.full]

----------------------------------------------------------------------------
(* CacheStorage and IndexedDB *)

\* The addresses the model uses, in IndexedDB key order.
UrlOrder == <<"https://cdn/lib", "https://remote/api/items", "https://remote/api/user",
              "https://self/", "https://self/api/items", "https://self/app.js",
              "https://self/index.html", "https://self/v/a.mp4">>
Urls == {UrlOrder[i] : i \in 1..Len(UrlOrder)}
NoUrl == "none"
CdnUrl == "https://cdn/lib"
RemoteApiUrl == "https://remote/api/items"
RemoteUserUrl == "https://remote/api/user"
RootUrl == "https://self/"
SelfApiUrl == "https://self/api/items"
AppJsUrl == "https://self/app.js"
IndexUrl == "https://self/index.html"
VideoUrl == "https://self/v/a.mp4"

\* Further addresses, which only the classification of requests is run on.
UpperVideoUrl == "https://self/v/b.MP4"
PlaylistUrl == "https://self/live/s.m3u8"
RemoteVideoUrl == "https://remote/clip.webm"
RemoteJsonUrl == "https://remote/data.json"
QueryJsonUrl == "https://remote/data.json?v=1"
SelfJsonUrl == "https://self/manifest.json"

\* A cache entry: the Response stored under a url.
Entry(url, status, body) == [url |-> url, status |-> status, body |-> body]
NoEntry == Entry(NoUrl, 0, <<>>)

\* cache.match(url): the entry stored under url, or undefined
CacheMatch(c, url) ==
    IF \E i \in 1..Len(c) : c[i].url = url
    THEN c[CHOOSE i \in 1..Len(c) : c[i].url = url]
    ELSE NoEntry

\* cache.delete(url)
CacheDelete(c, url) == SelectSeq(c, LAMBDA e : e.url # url)

\* cache.put(url, response): replaces the entry of url and puts it last in
\* insertion order. The Cache interface rejects a response of status 206 with
\* a TypeError and stores nothing.
CachePut(c, url, status, body) ==
    IF status = 206 THEN c
    ELSE Append(CacheDelete(c, url), Entry(url, status, body))

\* cache.keys(): the urls, ordered by insertion
CacheKeys(c) == [i \in 1..Len(c) |-> c[i].url]

\* An object store keyed by url: put, delete, getAllKeys
EmptyStore == [u \in {} |-> 0]
IdbPut(store, key, val) ==
    [k \in DOMAIN store \cup {key} |-> IF k = key THEN val ELSE store[k]]
IdbDelete(store, key) == [k \in DOMAIN store \ {key} |-> store[k]]
IdbGetAllKeys(store) == DOMAIN store

\* store.getAll(): the records in key order, each with its key
IdbGetAll(store) ==
    LET inStore == SelectSeq(UrlOrder, LAMBDA u : u \in DOMAIN store)
    IN [i \in 1..Len(inStore) |->
           [url |-> inStore[i], data |-> store[inStore[i]].data,
            timestamp |-> store[inStore[i]].timestamp]]

\* A record { url, data, timestamp } of API_STORE, without its key.
\* timestamp NoTimestamp: the record has no timestamp property.
NoTimestamp == -1
ApiRecord(data, timestamp) == [data |-> data, timestamp |-> timestamp]

----------------------------------------------------------------------------
(* Requests and their classification *)

\* new URL(req.url): origin, the directories of the path (each followed by
\* "/"), the file name, its extension (after the last "."), the query.
ParsedUrl(origin, dirs, file, ext, query) ==
    [origin |-> origin, dirs |-> dirs, file |-> file, ext |-> ext, query |-> query]
NewURL(u) ==
    CASE u = CdnUrl -> ParsedUrl("https://cdn", <<>>, "lib", "", "")
      [] u = RemoteApiUrl -> ParsedUrl("https://remote", <<"api">>, "items", "", "")
      [] u = RemoteUserUrl -> ParsedUrl("https://remote", <<"api">>, "user", "", "")
      [] u = RootUrl -> ParsedUrl("https://self", <<>>, "", "", "")
      [] u = SelfApiUrl -> ParsedUrl("https://self", <<"api">>, "items", "", "")
      [] u = AppJsUrl -> ParsedUrl("https://self", <<>>, "app", "js", "")
      [] u = IndexUrl -> ParsedUrl("https://self", <<>>, "index", "html", "")
      [] u = VideoUrl -> ParsedUrl("https://self", <<"v">>, "a", "mp4", "")
      [] u = UpperVideoUrl -> ParsedUrl("https://self", <<"v">>, "b", "MP4", "")
      [] u = PlaylistUrl -> ParsedUrl("https://self", <<"live">>, "s", "m3u8", "")
      [] u = RemoteVideoUrl -> ParsedUrl("https://remote", <<>>, "clip", "webm", "")
      [] u = RemoteJsonUrl -> ParsedUrl("https://remote", <<>>, "data", "json", "")
      [] u = QueryJsonUrl -> ParsedUrl("https://remote", <<>>, "data", "json", "v=1")
      [] u = SelfJsonUrl -> ParsedUrl("https://self", <<>>, "manifest", "json", "")

LocationOrigin == "https://self"

Request(method, mode, destination, url, accept, range) ==
    [method |-> method, mode |-> mode, destination |-> destination, url |-> url,
     accept |-> accept, range |-> range]

\* (req.headers.get("accept") || "").includes("application/json"): accept is
\* the set of media types the header lists.
isAPIRequest(req, url) ==
    \/ "application/json" \in req.accept
    \/ \E i \in 1..Len(url.dirs) : url.dirs[i] = "api"
    \/ url.ext = "json"

\* req.url.endsWith(".json"): of the whole url, so not with a query after it
isStaticAsset(req) ==
    \/ req.destination \in {"script", "style", "image", "font"}
    \/ (NewURL(req.url).ext = "json" /\ NewURL(req.url).query = "")

\* /\.(mp4|webm|ogg|m3u8)$/i.test(url.pathname)
ToLower(ext) ==
    CASE ext = "MP4" -> "mp4" [] ext = "WEBM" -> "webm" [] ext = "OGG" -> "ogg"
      [] ext = "M3U8" -> "m3u8" [] OTHER -> ext
isVideoRequest(req, url) ==
    req.destination = "video" \/ ToLower(url.ext) \in {"mp4", "webm", "ogg", "m3u8"}

\* The branch of the fetch handler a GET request takes: the first whose
\* condition holds, in the order the handler tests them.
StrategyOriginFirst(req) ==
    LET url == NewURL(req.url) IN
    IF req.mode = "navigate" \/ req.destination = "document" THEN "navigation"
    ELSE IF isStaticAsset(req) \/ url.origin = LocationOrigin THEN "static-asset"
    ELSE IF isVideoRequest(req, url) THEN "media"
    ELSE IF isAPIRequest(req, url) THEN "structured-data"
    ELSE "passthrough"
Strategy(req) ==
    LET url == NewURL(req.url) IN
    IF req.mode = "navigate" \/ req.destination = "document" THEN "navigation"
    ELSE IF isVideoRequest(req, url) THEN "media"
    ELSE IF isStaticAsset(req) \/ url.origin = LocationOrigin THEN "static-asset"
    ELSE IF isAPIRequest(req, url) THEN "structured-data"
    ELSE "passthrough"

\* The range headers the media requests of the model carry.
MediaRanges == {Null, <<"bytes=", "2", "-", "2">>}

\* The requests the pages make.
Requests ==
    {Request("GET", "navigate", "document", IndexUrl, {"text/html"}, Null),
     Request("GET", "navigate", "document", RootUrl, {"text/html"}, Null)}
    \cup {Request("GET", "no-cors", "video", VideoUrl, {"*/*"}, r) : r \in MediaRanges}
    \cup {Request("GET", "no-cors", "script", AppJsUrl, {"*/*"}, Null),
          Request("GET", "cors", "", SelfApiUrl, {"application/json"}, Null),
          Request("GET", "cors", "", RemoteApiUrl, {"application/json"}, Null),
          Request("GET", "cors", "", RemoteUserUrl, {"*/*"}, Null),
          Request("GET", "cors", "", CdnUrl, {"*/*"}, Null),
          Request("GET", "no-cors", "script", CdnUrl, {"*/*"}, Null),
          Request("POST", "cors", "", RemoteApiUrl, {"application/json"}, Null)}

----------------------------------------------------------------------------
(* The network *)

\* fetch() settles: it rejects (failed), or resolves to a response.
NetResponse(status, body) == [failed |-> FALSE, status |-> status, body |-> body]
NetFailure == [failed |-> TRUE, status |-> 0, body |-> <<>>]

\* The bytes "{}", "[]" and "{": two bodies that decode as JSON and one that
\* does not.
JsonBody == <<123, 125>>
JsonArrayBody == <<91, 93>>
BadJsonBody == <<123>>

\* The body of the server's 503 page: the bytes "503".
ServerErrorBody == <<53, 48, 51>>

\* What the server may answer for a url: the resource (the video in one of
\* two versions, the JSON in one of two), a part of it (206), or an error page
\* (a 404, or a 503 for the pages).
NetResults(u) ==
    {NetFailure, NetResponse(206, <<12>>),
     IF u \in {IndexUrl, RootUrl} THEN NetResponse(503, ServerErrorBody)
     ELSE NetResponse(404, <<>>)}
    \cup IF u \in {RemoteApiUrl, RemoteUserUrl, SelfApiUrl}
         THEN {NetResponse(200, JsonBody), NetResponse(200, JsonArrayBody),
               NetResponse(200, BadJsonBody)}
         ELSE IF u = VideoUrl
         THEN {NetResponse(200, Payload(MaxSize)), NetResponse(200, Payload(MaxSize - 1))}
         ELSE {NetResponse(200, Payload(1))}

\* response.ok
Ok(net) == net.status >= 200 /\ net.status <= 299

AsResponse(net) == Response(net.status, NoType, net.body)
EntryResponse(e) == Response(e.status, NoType, e.body)

\* new Response("", { status: 503 }) and new Response(null, { status: 503 })
Unavailable == Response(503, NoType, <<>>)
UnavailableNull == NullResponse(503, NoContentRange)

----------------------------------------------------------------------------
(* Tasks: one record per async function in flight *)

NumTasks == 2
Tasks == 1..NumTasks

NoRequest ==
    [method |-> "none", mode |-> "none", destination |-> "none", url |-> NoUrl,
     accept |-> {}, range |-> Null]
NoNet == [failed |-> FALSE, status |-> 0, body |-> <<>>]
NoResponse == NullResponse(0, NoContentRange)

IdleTask ==
    [kind |-> "idle", pc |-> "done",
     req |-> NoRequest, url |-> NoUrl, strategy |-> "none",
     cached |-> NoEntry, net |-> NoNet, resp |-> NoResponse,
     keys |-> <<>>, excludeUrls |-> {}, maxItems |-> 0, nonExcluded |-> <<>>,
     toDeleteCount |-> 0, i |-> 0, deleted |-> <<>>,
     all |-> <<>>, maxEntries |-> 0, toDelete |-> <<>>]

Finish(t) == [task EXCEPT ![t].pc = "done"]

\* History: the media cache-miss task of a fetch handler (put, pin, trim) ends.
AutoPinnedAfter(t) ==
    IF task[t].kind = "fetch" /\ task[t].strategy = "media"
    THEN autoPinned \cup {task[t].url}
    ELSE autoPinned

----------------------------------------------------------------------------
(* trimCache(cacheName, maxItems, excludeUrls) *)

\* keys.filter(k => !excludeUrls.has(k.url))
NonExcludedAll(keys, excludeUrls) == keys
NonExcluded(keys, excludeUrls) == SelectSeq(keys, LAMBDA k : k \notin excludeUrls)

\* keys.length - maxItems
ToDeleteCountOneMore(keys, maxItems) == Len(keys) - maxItems + 1
ToDeleteCount(keys, maxItems) == Len(keys) - maxItems

\* The call trimCache(CACHE_NAME, maxItems, excludeUrls) made by task t.
CallTrimCache(t, maxItems, excludeUrls) ==
    [task EXCEPT ![t].pc = "trim_keys", ![t].maxItems = maxItems,
                 ![t].excludeUrls = excludeUrls]

\* const keys = await cache.keys(); if (keys.length <= maxItems) return;
TrimKeys(t) ==
    /\ task[t].pc = "trim_keys"
    /\ LET keys == CacheKeys(cache) IN
          IF Len(keys) <= task[t].maxItems
          THEN /\ task' = [task EXCEPT ![t].pc = "done", ![t].keys = keys]
               /\ autoPinned' = AutoPinnedAfter(t)
          ELSE /\ task' = [task EXCEPT
                              ![t].pc = "trim_loop",
                              ![t].keys = keys,
                              ![t].nonExcluded = NonExcluded(keys, task[t].excludeUrls),
                              ![t].toDeleteCount = ToDeleteCount(keys, task[t].maxItems),
                              ![t].i = 0]
               /\ UNCHANGED autoPinned
    /\ UNCHANGED <<slicerVars, appVars, lifeVars, storeVars, phase, started, now, putLog>>

\* One turn of the loop: await cache.delete(nonExcluded[i]); toDeleteCount--
TrimDelete(t) ==
    /\ task[t].pc = "trim_loop"
    /\ task[t].i < Len(task[t].nonExcluded) /\ task[t].toDeleteCount > 0
    /\ LET k == task[t].nonExcluded[task[t].i + 1] IN
          /\ cache' = CacheDelete(cache, k)
          /\ task' = [task EXCEPT ![t].i = @ + 1, ![t].toDeleteCount = @ - 1,
                                  ![t].deleted = Append(@, k)]
    /\ UNCHANGED <<slicerVars, appVars, lifeVars, pins, api, phase, started, now, putLog, autoPinned>>

\* The loop's condition fails: trimCache returns.
TrimReturn(t) ==
    /\ task[t].pc = "trim_loop"
    /\ ~(task[t].i < Len(task[t].nonExcluded) /\ task[t].toDeleteCount > 0)
    /\ task' = Finish(t)
    /\ autoPinned' = AutoPinnedAfter(t)
    /\ UNCHANGED <<slicerVars, appVars, lifeVars, storeVars, phase, started, now, putLog>>

----------------------------------------------------------------------------
(* trimIDBStore(storeName, maxEntries), on API_STORE *)

\* (a.timestamp || 0)
TimestampOrZero(r) == IF r.timestamp = NoTimestamp THEN 0 ELSE r.timestamp

\* all.sort((a, b) => (a.timestamp || 0) - (b.timestamp || 0)): a stable sort,
\* oldest first.
RECURSIVE InsertNewestFirst(_, _)
InsertNewestFirst(sorted, r) ==
    IF sorted = <<>> THEN <<r>>
    ELSE IF TimestampOrZero(Head(sorted)) >= TimestampOrZero(r)
         THEN <<Head(sorted)>> \o InsertNewestFirst(Tail(sorted), r)
         ELSE <<r>> \o sorted

RECURSIVE InsertByTimestamp(_, _)
InsertByTimestamp(sorted, r) ==
    IF sorted = <<>> THEN <<r>>
    ELSE IF TimestampOrZero(Head(sorted)) <= TimestampOrZero(r)
         THEN <<Head(sorted)>> \o InsertByTimestamp(Tail(sorted), r)
         ELSE <<r>> \o sorted

RECURSIVE SortByTimestamp(_)
SortByTimestamp(all) ==
    IF all = <<>> THEN <<>>
    ELSE InsertByTimestamp(SortByTimestamp(SubSeq(all, 1, Len(all) - 1)), all[Len(all)])

\* all.slice(0, all.length - maxEntries)
SliceOldest(all, maxEntries) == SubSeq(all, 1, Len(all) - maxEntries)

\* The call trimIDBStore(API_STORE, maxEntries) made by task t.
CallTrimIDBStore(t, maxEntries) ==
    [task EXCEPT ![t].pc = "idb_getall", ![t].maxEntries = maxEntries]

\* const all = await idbGetAll(storeName);
\* if (!all || all.length <= maxEntries) return; sort; slice
TrimIDBGetAll(t) ==
    /\ task[t].pc = "idb_getall"
    /\ LET all == IdbGetAll(api) IN
          task' = IF Len(all) <= task[t].maxEntries
                  THEN [task EXCEPT ![t].pc = "done", ![t].all = all]
                  ELSE [task EXCEPT
                            ![t].pc = "idb_delete",
                            ![t].all = SortByTimestamp(all),
                            ![t].toDelete =
                                SliceOldest(SortByTimestamp(all), task[t].maxEntries)]
    /\ UNCHANGED <<slicerVars, appVars, lifeVars, storeVars, phase, started, now, putLog, autoPinned>>

\* await Promise.all(toDelete.map(item => idbDelete(storeName, item.url))): the
\* delete transactions are created back to back and run in that order.
TrimIDBDelete(t) ==
    /\ task[t].pc = "idb_delete"
    /\ api' = [k \in DOMAIN api \ {task[t].toDelete[j].url : j \in 1..Len(task[t].toDelete)}
                  |-> api[k]]
    /\ task' = Finish(t)
    /\ UNCHANGED <<slicerVars, appVars, lifeVars, cache, pins, phase, started, now, putLog, autoPinned>>

----------------------------------------------------------------------------
(* The fetch handler *)

\* The handler calls trimCache(CACHE_NAME, 200, ...) and
\* trimIDBStore(API_STORE, 100); the model scales both caps down to the
\* number of addresses it has.
TrimMaxItems == 2
ApiMaxEntries == 1

Free(t) == task[t].pc = "done"

\* An event is handled while the worker is active; the model handles MaxEvents
\* of them, each in the first free task.
MaxEvents == 2
CanStart(t) ==
    /\ phase = "activated"
    /\ started < MaxEvents
    /\ Free(t)
    /\ \A other \in 1..(t - 1) : ~Free(other)
At(t, pc) == task[t].pc = pc
Req(t) == task[t].req

\* History: a cache.put call, by call site and response status.
Logged(site, status) == putLog \cup {[site |-> site, status |-> status]}

\* A fetch event arrives. if (req.method !== "GET") return;
FetchStart(t, req) ==
    /\ CanStart(t)
    /\ task' = [task EXCEPT ![t] =
          [IdleTask EXCEPT
              !.kind = "fetch", !.req = req, !.url = req.url,
              !.strategy = IF req.method # "GET" THEN "unhandled" ELSE Strategy(req),
              !.pc = IF req.method # "GET" THEN "done"
                     ELSE CASE Strategy(req) = "navigation" -> "nav_fetch"
                            [] Strategy(req) = "media" -> "media_match"
                            [] Strategy(req) = "static-asset" -> "static_match"
                            [] Strategy(req) = "structured-data" -> "api_fetch"
                            [] Strategy(req) = "passthrough" -> "pass_fetch"]]
    /\ started' = started + 1
    /\ UNCHANGED <<slicerVars, appVars, lifeVars, storeVars, phase, now, putLog, autoPinned>>

(* 1) Navigation: network-first, fallback to the cached index *)

OfflinePage == Response(200, "text/html", <<79, 102, 102>>)

\* const netResp = await fetch(req); on success the put is started, not
\* awaited, and netResp returned.
NavFetch(t) ==
    /\ At(t, "nav_fetch")
    /\ \E net \in NetResults(task[t].url) :
          /\ task' = IF net.failed
                     THEN [task EXCEPT ![t].pc = "nav_fallback", ![t].net = net]
                     ELSE [task EXCEPT ![t].pc = "nav_put", ![t].net = net,
                                       ![t].resp = AsResponse(net)]
          /\ UNCHANGED <<slicerVars, appVars, lifeVars, storeVars, phase, started, now, putLog, autoPinned>>

\* cache.put(req, netResp.clone()).catch(() => {})
NavPut(t) ==
    /\ At(t, "nav_put")
    /\ cache' = CachePut(cache, task[t].url, task[t].net.status, task[t].net.body)
    /\ putLog' = Logged("navigation", task[t].net.status)
    /\ task' = Finish(t)
    /\ UNCHANGED <<slicerVars, appVars, lifeVars, pins, api, phase, started, now, autoPinned>>

\* catch: cache.match("./index.html") || cache.match("./"), else the offline page
NavFallbackSentinel(t) ==
    /\ At(t, "nav_fallback")
    /\ task' = [task EXCEPT ![t].pc = "done",
                            ![t].resp = IF CacheMatch(cache, IndexUrl) # NoEntry
                                        THEN EntryResponse(CacheMatch(cache, IndexUrl))
                                        ELSE Unavailable]
    /\ UNCHANGED <<slicerVars, appVars, lifeVars, storeVars, phase, started, now, putLog, autoPinned>>
NavFallback(t) ==
    /\ At(t, "nav_fallback")
    /\ LET cachedIndex == IF CacheMatch(cache, IndexUrl) # NoEntry
                          THEN CacheMatch(cache, IndexUrl)
                          ELSE CacheMatch(cache, RootUrl)
       IN task' = [task EXCEPT ![t].pc = "done",
                               ![t].resp = IF cachedIndex # NoEntry
                                           THEN EntryResponse(cachedIndex)
                                           ELSE OfflinePage]
    /\ UNCHANGED <<slicerVars, appVars, lifeVars, storeVars, phase, started, now, putLog, autoPinned>>

(* 2) Video: cache-first and range-aware, background refresh, pinned *)

\* net && net.ok && net.status === 200
Full200AnyOk(net) == Ok(net)
Full200(net) == Ok(net) /\ net.status = 200

\* let cached = await cache.match(req) || await cache.match(req.url); when
\* cached, the refresh is started and the slice of cached returned.
MediaMatch(t) ==
    /\ At(t, "media_match")
    /\ LET cached == CacheMatch(cache, task[t].url) IN
          task' = IF cached # NoEntry
                  THEN [task EXCEPT
                           ![t].pc = "refresh_fetch", ![t].cached = cached,
                           ![t].resp = serveRangeFromFullResponse(
                                           EntryResponse(cached), Req(t).range).resp]
                  ELSE [task EXCEPT ![t].pc = "media_fetch"]
    /\ UNCHANGED <<slicerVars, appVars, lifeVars, storeVars, phase, started, now, putLog, autoPinned>>

\* The refresh: const net = await fetch(req); errors are ignored.
RefreshFetch(t) ==
    /\ At(t, "refresh_fetch")
    /\ \E net \in NetResults(task[t].url) :
          /\ task' = IF ~net.failed /\ Full200(net)
                     THEN [task EXCEPT ![t].pc = "refresh_put", ![t].net = net]
                     ELSE [task EXCEPT ![t].pc = "done", ![t].net = net]
          /\ UNCHANGED <<slicerVars, appVars, lifeVars, storeVars, phase, started, now, putLog, autoPinned>>

\* await cache.put(req.url, net.clone());
RefreshPut(t) ==
    /\ At(t, "refresh_put")
    /\ cache' = CachePut(cache, task[t].url, task[t].net.status, task[t].net.body)
    /\ putLog' = Logged("media-refresh", task[t].net.status)
    /\ task' = [task EXCEPT ![t].pc = "refresh_pin"]
    /\ UNCHANGED <<slicerVars, appVars, lifeVars, pins, api, phase, started, now, autoPinned>>

\* await idbPut(PIN_STORE, { url: req.url, pinned: true, timestamp: Date.now() });
RefreshPin(t) ==
    /\ At(t, "refresh_pin")
    /\ pins' = IdbPut(pins, task[t].url, now)
    /\ task' = Finish(t)
    /\ UNCHANGED <<slicerVars, appVars, lifeVars, cache, api, phase, started, now, putLog, autoPinned>>

\* Not cached: const netResp = await fetch(req). A 206 is returned as it is; a
\* full 200 starts the put-pin-trim task and is returned, sliced when the
\* request has a range; another status falls to the 503.
MediaFetch(t) ==
    /\ At(t, "media_fetch")
    /\ \E net \in NetResults(task[t].url) :
          /\ task' =
                IF net.failed
                THEN [task EXCEPT ![t].pc = "media_rematch", ![t].net = net]
                ELSE IF net.status = 206
                THEN [task EXCEPT ![t].pc = "done", ![t].net = net,
                                  ![t].resp = AsResponse(net)]
                ELSE IF Full200(net)
                THEN [task EXCEPT
                         ![t].pc = "miss_put", ![t].net = net,
                         ![t].resp =
                             IF Req(t).range # Null /\ Req(t).range # <<>>
                             THEN serveRangeFromFullResponse(AsResponse(net),
                                                             Req(t).range).resp
                             ELSE AsResponse(net)]
                ELSE [task EXCEPT ![t].pc = "done", ![t].net = net,
                                  ![t].resp = Unavailable]
          /\ UNCHANGED <<slicerVars, appVars, lifeVars, storeVars, phase, started, now, putLog, autoPinned>>

\* await cache.put(req.url, netResp.clone());
MissPut(t) ==
    /\ At(t, "miss_put")
    /\ cache' = CachePut(cache, task[t].url, task[t].net.status, task[t].net.body)
    /\ putLog' = Logged("media-miss", task[t].net.status)
    /\ task' = [task EXCEPT ![t].pc = "miss_pin"]
    /\ UNCHANGED <<slicerVars, appVars, lifeVars, pins, api, phase, started, now, autoPinned>>

\* await idbPut(PIN_STORE, { url: req.url, pinned: true, timestamp: Date.now() });
MissPinSkipped(t) ==
    /\ At(t, "miss_pin")
    /\ task' = [task EXCEPT ![t].pc = "miss_keys"]
    /\ UNCHANGED <<slicerVars, appVars, lifeVars, storeVars, phase, started, now, putLog, autoPinned>>
MissPin(t) ==
    /\ At(t, "miss_pin")
    /\ pins' = IdbPut(pins, task[t].url, now)
    /\ task' = [task EXCEPT ![t].pc = "miss_keys"]
    /\ UNCHANGED <<slicerVars, appVars, lifeVars, cache, api, phase, started, now, putLog, autoPinned>>

\* const pinnedKeys = (await idbGetAllKeys(PIN_STORE)) || [];
\* await trimCache(CACHE_NAME, 200, new Set(pinnedKeys));
MissKeys(t) ==
    /\ At(t, "miss_keys")
    /\ task' = CallTrimCache(t, TrimMaxItems, IdbGetAllKeys(pins))
    /\ UNCHANGED <<slicerVars, appVars, lifeVars, storeVars, phase, started, now, putLog, autoPinned>>

\* catch: the network failed; cachedAgain sliced, else the 503
MediaRematchFallsThrough(t) ==
    /\ At(t, "media_rematch")
    /\ LET cachedAgain == CacheMatch(cache, task[t].url) IN
          task' = IF cachedAgain # NoEntry
                  THEN [task EXCEPT
                           ![t].pc = "done", ![t].cached = cachedAgain,
                           ![t].resp = serveRangeFromFullResponse(
                                           EntryResponse(cachedAgain), Req(t).range).resp]
                  ELSE [task EXCEPT ![t].pc = "static_match"]
    /\ UNCHANGED <<slicerVars, appVars, lifeVars, storeVars, phase, started, now, putLog, autoPinned>>
MediaRematch(t) ==
    /\ At(t, "media_rematch")
    /\ LET cachedAgain == CacheMatch(cache, task[t].url) IN
          task' = [task EXCEPT
                      ![t].pc = "done", ![t].cached = cachedAgain,
                      ![t].resp = IF cachedAgain # NoEntry
                                  THEN serveRangeFromFullResponse(
                                           EntryResponse(cachedAgain),
                                           Req(t).range).resp
                                  ELSE Unavailable]
    /\ UNCHANGED <<slicerVars, appVars, lifeVars, storeVars, phase, started, now, putLog, autoPinned>>

(* 3) Static assets: cache-first with a background update *)

\* const cached = await cache.match(req); the fetch is started; when cached,
\* cached is returned and the fetch goes on in the background.
StaticMatch(t) ==
    /\ At(t, "static_match")
    /\ LET cached == CacheMatch(cache, task[t].url) IN
          task' = [task EXCEPT
                      ![t].pc = "static_fetch", ![t].cached = cached,
                      ![t].resp = IF cached # NoEntry THEN EntryResponse(cached)
                                  ELSE NoResponse]
    /\ UNCHANGED <<slicerVars, appVars, lifeVars, storeVars, phase, started, now, putLog, autoPinned>>

\* if (response && response.ok)
StaticStoresAll(net) == TRUE
StaticStores(net) == Ok(net)

\* fetch(req) settles: .then puts an ok response; .catch gives null. With
\* nothing cached, a response that is not ok is returned as it is.
StaticFetch(t) ==
    /\ At(t, "static_fetch")
    /\ \E net \in NetResults(task[t].url) :
          /\ task' =
                IF net.failed
                THEN [task EXCEPT ![t].net = net,
                                  ![t].pc = IF task[t].cached # NoEntry THEN "done"
                                            ELSE "static_rematch"]
                ELSE IF StaticStores(net)
                THEN [task EXCEPT ![t].pc = "static_put", ![t].net = net]
                ELSE [task EXCEPT ![t].pc = "done", ![t].net = net,
                                  ![t].resp = IF task[t].cached # NoEntry THEN @
                                              ELSE AsResponse(net)]
          /\ UNCHANGED <<slicerVars, appVars, lifeVars, storeVars, phase, started, now, putLog, autoPinned>>

\* try { await cache.put(req, response.clone()); } catch (e) {} return response;
StaticPut(t) ==
    /\ At(t, "static_put")
    /\ cache' = CachePut(cache, task[t].url, task[t].net.status, task[t].net.body)
    /\ putLog' = Logged("static-asset", task[t].net.status)
    /\ task' = [task EXCEPT ![t].pc = "done",
                            ![t].resp = IF task[t].cached # NoEntry THEN @
                                        ELSE AsResponse(task[t].net)]
    /\ UNCHANGED <<slicerVars, appVars, lifeVars, pins, api, phase, started, now, autoPinned>>

\* The fetch gave null: runtimeCache.match(req), else the 503 (a null body for
\* an image).
StaticRematch(t) ==
    /\ At(t, "static_rematch")
    /\ LET runtimeCached == CacheMatch(cache, task[t].url) IN
          task' = [task EXCEPT
                      ![t].pc = "done",
                      ![t].resp = IF runtimeCached # NoEntry
                                  THEN EntryResponse(runtimeCached)
                                  ELSE IF Req(t).destination = "image"
                                       THEN UnavailableNull ELSE Unavailable]
    /\ UNCHANGED <<slicerVars, appVars, lifeVars, storeVars, phase, started, now, putLog, autoPinned>>

(* 4) API: network-first, the JSON kept in IndexedDB *)

\* cloned.json().catch(() => null): "null" for a body that does not decode
\* JSON.stringify(data): the bytes of the text of data
JsonParse(body) ==
    IF body = JsonBody THEN "{}" ELSE IF body = JsonArrayBody THEN "[]" ELSE "null"
JsonStringify(data) ==
    IF data = "{}" THEN JsonBody
    ELSE IF data = "[]" THEN JsonArrayBody ELSE <<110, 117, 108, 108>>

\* const networkResponse = await fetch(req); an ok response is decoded
ApiFetch(t) ==
    /\ At(t, "api_fetch")
    /\ \E net \in NetResults(task[t].url) :
          /\ task' =
                IF net.failed
                THEN [task EXCEPT ![t].pc = "api_idbget", ![t].net = net]
                ELSE IF Ok(net) /\ JsonParse(net.body) # "null"
                THEN [task EXCEPT ![t].pc = "api_put", ![t].net = net]
                ELSE [task EXCEPT ![t].pc = "done", ![t].net = net,
                                  ![t].resp = AsResponse(net)]
          /\ UNCHANGED <<slicerVars, appVars, lifeVars, storeVars, phase, started, now, putLog, autoPinned>>

\* await idbPut(API_STORE, { url: req.url, data, timestamp: Date.now() });
\* event.waitUntil(trimIDBStore(API_STORE, 100)); return networkResponse;
ApiPutReencodes(t) ==
    /\ At(t, "api_put")
    /\ api' = IdbPut(api, task[t].url, ApiRecord(JsonParse(task[t].net.body), now))
    /\ task' = [CallTrimIDBStore(t, ApiMaxEntries) EXCEPT
                   ![t].resp = Response(200, "application/json",
                                        JsonStringify(JsonParse(task[t].net.body)))]
    /\ UNCHANGED <<slicerVars, appVars, lifeVars, cache, pins, phase, started, now, putLog, autoPinned>>
ApiPut(t) ==
    /\ At(t, "api_put")
    /\ api' = IdbPut(api, task[t].url, ApiRecord(JsonParse(task[t].net.body), now))
    /\ task' = [CallTrimIDBStore(t, ApiMaxEntries) EXCEPT
                   ![t].resp = AsResponse(task[t].net)]
    /\ UNCHANGED <<slicerVars, appVars, lifeVars, cache, pins, phase, started, now, putLog, autoPinned>>

\* catch: const cachedObj = await idbGet(API_STORE, req.url);
ApiIdbGetNoRecord(t) ==
    /\ At(t, "api_idbget")
    /\ task' = [task EXCEPT ![t].pc = "api_static"]
    /\ UNCHANGED <<slicerVars, appVars, lifeVars, storeVars, phase, started, now, putLog, autoPinned>>
ApiIdbGet(t) ==
    /\ At(t, "api_idbget")
    /\ task' = IF task[t].url \in DOMAIN api
               THEN [task EXCEPT
                        ![t].pc = "done",
                        ![t].resp = Response(200, "application/json",
                                             JsonStringify(api[task[t].url].data))]
               ELSE [task EXCEPT ![t].pc = "api_static"]
    /\ UNCHANGED <<slicerVars, appVars, lifeVars, storeVars, phase, started, now, putLog, autoPinned>>

\* const staticCached = await staticCache.match(req); else the 503
ApiStatic(t) ==
    /\ At(t, "api_static")
    /\ LET staticCached == CacheMatch(cache, task[t].url) IN
          task' = [task EXCEPT
                      ![t].pc = "done",
                      ![t].resp = IF staticCached # NoEntry
                                  THEN EntryResponse(staticCached) ELSE Unavailable]
    /\ UNCHANGED <<slicerVars, appVars, lifeVars, storeVars, phase, started, now, putLog, autoPinned>>

(* 5) Other requests: the network, else the cache *)

\* const networkResponse = await fetch(req); return networkResponse;
PassFetchStores(t) ==
    /\ At(t, "pass_fetch")
    /\ \E net \in NetResults(task[t].url) :
          /\ task' = IF net.failed
                     THEN [task EXCEPT ![t].pc = "pass_match", ![t].net = net]
                     ELSE [task EXCEPT ![t].pc = "done", ![t].net = net,
                                       ![t].resp = AsResponse(net)]
          /\ cache' = IF ~net.failed /\ Ok(net)
                      THEN CachePut(cache, task[t].url, net.status, net.body)
                      ELSE cache
          /\ UNCHANGED <<slicerVars, appVars, lifeVars, pins, api, phase, started, now, putLog,
                         autoPinned>>
PassFetch(t) ==
    /\ At(t, "pass_fetch")
    /\ \E net \in NetResults(task[t].url) :
          /\ task' = IF net.failed
                     THEN [task EXCEPT ![t].pc = "pass_match", ![t].net = net]
                     ELSE [task EXCEPT ![t].pc = "done", ![t].net = net,
                                       ![t].resp = AsResponse(net)]
          /\ UNCHANGED <<slicerVars, appVars, lifeVars, storeVars, phase, started, now, putLog, autoPinned>>

PassMatchRethrows(t) ==
    /\ At(t, "pass_match")
    /\ task' = Finish(t)
    /\ UNCHANGED <<slicerVars, appVars, lifeVars, storeVars, phase, started, now, putLog, autoPinned>>
PassMatch(t) ==
    /\ At(t, "pass_match")
    /\ LET staticCached == CacheMatch(cache, task[t].url) IN
          task' = [task EXCEPT
                      ![t].pc = "done",
                      ![t].resp = IF staticCached # NoEntry
                                  THEN EntryResponse(staticCached) ELSE Unavailable]
    /\ UNCHANGED <<slicerVars, appVars, lifeVars, storeVars, phase, started, now, putLog, autoPinned>>

----------------------------------------------------------------------------
(* The fetch handler when an operation of a store fails *)

\* The promise given to respondWith rejects: the page sees a network error.
Rejected == [NoResponse EXCEPT !.status = -2]

\* The awaits of caches.open and cache.match that no try block of the
\* handler covers: the media lookup (line 310 - 313), the static lookups
\* (line 376 - 377, 394 - 395), and those made inside a catch block (line
\* 299 - 300, 365, 430 - 431, 445 - 446).
UncaughtStoreSteps ==
    {"nav_fallback", "media_match", "media_rematch", "static_match",
     "static_rematch", "api_static", "pass_match"}

\* The store operations of the background tasks, each inside a try block
\* whose catch ignores the error (line 321 - 327, 345 - 353).
BackgroundStoreSteps == {"refresh_put", "refresh_pin", "miss_put", "miss_pin", "miss_keys"}

\* An operation outside every try block rejects, and with it the handler.
StoreFaultRejects(t) ==
    /\ task[t].kind = "fetch"
    /\ task[t].pc \in UncaughtStoreSteps
    /\ task' = [task EXCEPT ![t].pc = "done", ![t].resp = Rejected]
    /\ UNCHANGED <<slicerVars, appVars, lifeVars, storeVars, phase, started, now, putLog, autoPinned>>

\* An operation of a background task rejects: its catch ends the task. A put
\* of the static branch or an idbPut of the API branch rejects: the catch
\* goes on and the network response is returned.
StoreFaultSwallowed(t) ==
    /\ task[t].kind = "fetch"
    /\ task[t].pc \in BackgroundStoreSteps \cup {"static_put", "api_put"}
    /\ task' = [task EXCEPT
                   ![t].pc = "done",
                   ![t].resp = IF task[t].pc \in BackgroundStoreSteps THEN @
                               ELSE IF task[t].cached # NoEntry THEN @
                               ELSE AsResponse(task[t].net)]
    /\ autoPinned' = IF task[t].pc \in {"miss_put", "miss_pin", "miss_keys"}
                     THEN AutoPinnedAfter(t) ELSE autoPinned
    /\ UNCHANGED <<slicerVars, appVars, lifeVars, storeVars, phase, started, now, putLog>>

\* idbGet of the API fallback rejects: the catch goes on to the static
\* cache. caches.open of the navigation branch rejects inside the try: the
\* catch takes the request for one whose network call failed.
StoreFaultMiss(t) ==
    /\ task[t].kind = "fetch"
    /\ task[t].pc \in {"api_idbget", "nav_put"}
    /\ task' = [task EXCEPT
                   ![t].pc = IF task[t].pc = "api_idbget" THEN "api_static"
                             ELSE "nav_fallback",
                   ![t].resp = NoResponse]
    /\ UNCHANGED <<slicerVars, appVars, lifeVars, storeVars, phase, started, now, putLog, autoPinned>>

FaultSteps(t) == StoreFaultRejects(t) \/ StoreFaultSwallowed(t) \/ StoreFaultMiss(t)

----------------------------------------------------------------------------
(* The message handler: pin, unpin, delete *)

\* The urls the page sends commands for.
CommandUrls == {VideoUrl}

MessageStart(t, action, url) ==
    /\ CanStart(t)
    /\ task' = [task EXCEPT ![t] =
          [IdleTask EXCEPT
              !.kind = action, !.url = url,
              !.pc = CASE action = "pin" -> "pin_match"
                       [] action = "unpin" -> "unpin_delete"
                       [] action = "delete" -> "delete_cache"]]
    /\ started' = started + 1
    /\ UNCHANGED <<slicerVars, appVars, lifeVars, storeVars, phase, now, putLog, autoPinned>>

\* let existing = await cache.match(msg.url) || await cache.match(new Request(msg.url));
PinMatch(t) ==
    /\ At(t, "pin_match")
    /\ LET existing == CacheMatch(cache, task[t].url) IN
          task' = [task EXCEPT ![t].cached = existing,
                               ![t].pc = IF existing # NoEntry THEN "pin_mark"
                                         ELSE "pin_fetch"]
    /\ UNCHANGED <<slicerVars, appVars, lifeVars, storeVars, phase, started, now, putLog, autoPinned>>

\* const net = await fetch(msg.url, { mode: 'cors' }); only a full 200 is put
PinFetch(t) ==
    /\ At(t, "pin_fetch")
    /\ \E net \in NetResults(task[t].url) :
          /\ task' = [task EXCEPT ![t].net = net,
                                  ![t].pc = IF ~net.failed /\ Full200(net) THEN "pin_put"
                                            ELSE "pin_mark"]
          /\ UNCHANGED <<slicerVars, appVars, lifeVars, storeVars, phase, started, now, putLog, autoPinned>>

\* await cache.put(msg.url, net.clone());
PinPut(t) ==
    /\ At(t, "pin_put")
    /\ cache' = CachePut(cache, task[t].url, task[t].net.status, task[t].net.body)
    /\ putLog' = Logged("pin", task[t].net.status)
    /\ task' = [task EXCEPT ![t].pc = "pin_mark"]
    /\ UNCHANGED <<slicerVars, appVars, lifeVars, pins, api, phase, started, now, autoPinned>>

\* await idbPut(PIN_STORE, { url: msg.url, pinned: true, timestamp: Date.now() });
PinMarkSkipped(t) ==
    /\ At(t, "pin_mark")
    /\ task' = [task EXCEPT ![t].pc = "pin_keys"]
    /\ UNCHANGED <<slicerVars, appVars, lifeVars, storeVars, phase, started, now, putLog, autoPinned>>
PinMark(t) ==
    /\ At(t, "pin_mark")
    /\ pins' = IdbPut(pins, task[t].url, now)
    /\ task' = [task EXCEPT ![t].pc = "pin_keys"]
    /\ UNCHANGED <<slicerVars, appVars, lifeVars, cache, api, phase, started, now, putLog, autoPinned>>

\* const pinnedKeys = (await idbGetAllKeys(PIN_STORE)) || [];
\* await trimCache(CACHE_NAME, 200, new Set(pinnedKeys));
PinKeys(t) ==
    /\ At(t, "pin_keys")
    /\ task' = CallTrimCache(t, TrimMaxItems, IdbGetAllKeys(pins))
    /\ UNCHANGED <<slicerVars, appVars, lifeVars, storeVars, phase, started, now, putLog, autoPinned>>

\* unpin: await idbDelete(PIN_STORE, msg.url);
UnpinDeleteEvicts(t) ==
    /\ At(t, "unpin_delete")
    /\ pins' = IdbDelete(pins, task[t].url)
    /\ cache' = CacheDelete(cache, task[t].url)
    /\ task' = Finish(t)
    /\ UNCHANGED <<slicerVars, appVars, lifeVars, api, phase, started, now, putLog, autoPinned>>
UnpinDelete(t) ==
    /\ At(t, "unpin_delete")
    /\ pins' = IdbDelete(pins, task[t].url)
    /\ task' = Finish(t)
    /\ UNCHANGED <<slicerVars, appVars, lifeVars, cache, api, phase, started, now, putLog, autoPinned>>

\* delete: await cache.delete(msg.url);
DeleteCache(t) ==
    /\ At(t, "delete_cache")
    /\ cache' = CacheDelete(cache, task[t].url)
    /\ task' = [task EXCEPT ![t].pc = "delete_pin"]
    /\ UNCHANGED <<slicerVars, appVars, lifeVars, pins, api, phase, started, now, putLog, autoPinned>>

\* delete: await idbDelete(PIN_STORE, msg.url);
DeletePinSkipped(t) ==
    /\ At(t, "delete_pin")
    /\ task' = Finish(t)
    /\ UNCHANGED <<slicerVars, appVars, lifeVars, storeVars, phase, started, now, putLog, autoPinned>>
DeletePin(t) ==
    /\ At(t, "delete_pin")
    /\ pins' = IdbDelete(pins, task[t].url)
    /\ task' = Finish(t)
    /\ UNCHANGED <<slicerVars, appVars, lifeVars, cache, api, phase, started, now, putLog, autoPinned>>

----------------------------------------------------------------------------
(* Cache generations *)

CACHE_NAME == "pwa-demo-v4"

\* The caches earlier generations of the worker have left: an older
\* CACHE_NAME, and the RUNTIME cache of the revision that had one.
OldGenerations == {"pwa-demo-v2", "pwa-demo-v3", "pwa-runtime-v1"}

\* The activate handler before it runs, and after it has run.
NotActivated == [keys |-> {}, deleting |-> {}]
Activated == [keys |-> {CACHE_NAME}, deleting |-> {}]

----------------------------------------------------------------------------
(* The install handler *)

\* The model installs two of the ten core assets.
CORE_ASSETS == <<IndexUrl, VideoUrl>>

\* The install event: const cache = await caches.open(CACHE_NAME), which
\* creates the cache; then one async function per core asset, run by Promise.all.
InstallStart ==
    /\ phase = "parsed"
    /\ phase' = "installing"
    /\ generations' = generations \cup {CACHE_NAME}
    /\ UNCHANGED activate
    /\ task' = [t \in Tasks |->
                  IF t <= Len(CORE_ASSETS)
                  THEN [IdleTask EXCEPT !.kind = "install", !.pc = "install_fetch",
                                        !.url = CORE_ASSETS[t]]
                  ELSE IdleTask]
    /\ UNCHANGED <<slicerVars, appVars, storeVars, started, now, putLog, autoPinned>>

\* const resp = await fetch(url, { cache: "no-cache" });
\* if (!resp || !resp.ok) throw new Error("bad response"); the catch goes on
InstallFetch(t) ==
    /\ At(t, "install_fetch")
    /\ \E net \in NetResults(task[t].url) :
          /\ task' = [task EXCEPT ![t].net = net,
                                  ![t].pc = IF ~net.failed /\ Ok(net) THEN "install_put"
                                            ELSE "done"]
          /\ UNCHANGED <<slicerVars, appVars, lifeVars, storeVars, phase, started, now, putLog, autoPinned>>

\* await cache.put(url, resp.clone());
InstallPutSkipped(t) ==
    /\ At(t, "install_put")
    /\ task' = Finish(t)
    /\ UNCHANGED <<slicerVars, appVars, lifeVars, storeVars, phase, started, now, putLog, autoPinned>>
InstallPut(t) ==
    /\ At(t, "install_put")
    /\ cache' = CachePut(cache, task[t].url, task[t].net.status, task[t].net.body)
    /\ putLog' = Logged("install", task[t].net.status)
    /\ task' = Finish(t)
    /\ UNCHANGED <<slicerVars, appVars, lifeVars, pins, api, phase, started, now, autoPinned>>

\* Promise.all has settled: await self.skipWaiting(); the worker takes over.
InstallDone ==
    /\ phase = "installing"
    /\ \A t \in Tasks : Free(t)
    /\ phase' = "installed"
    /\ task' = [t \in Tasks |-> IdleTask]
    /\ UNCHANGED <<slicerVars, appVars, lifeVars, storeVars, started, now, putLog, autoPinned>>

----------------------------------------------------------------------------
(* The activate handler *)

\* keys.filter(k => (k !== CACHE_NAME))
StaleGenerationsKeepRuntime(keys) == keys \ {CACHE_NAME, "pwa-runtime-v1"}
StaleGenerations(keys) == keys \ {CACHE_NAME}

\* The activate event, after skipWaiting: const keys = await caches.keys();
\* then one caches.delete(k) per stale key, run by Promise.all.
ActivateStart ==
    /\ phase = "installed"
    /\ phase' = "activating"
    /\ activate' = [keys |-> generations, deleting |-> StaleGenerations(generations)]
    /\ UNCHANGED <<slicerVars, appVars, storeVars, generations, task, started, now, putLog,
                   autoPinned>>

\* caches.delete(k) of one of the stale keys is done.
ActivateDelete(k) ==
    /\ phase = "activating"
    /\ k \in activate.deleting
    /\ generations' = generations \ {k}
    /\ activate' = [activate EXCEPT !.deleting = @ \ {k}]
    /\ UNCHANGED <<slicerVars, appVars, storeVars, phase, task, started, now, putLog, autoPinned>>

\* Promise.all has settled: await self.clients.claim(); the handler returns
\* and the worker is active.
ActivateClaim ==
    /\ phase = "activating"
    /\ activate.deleting = {}
    /\ phase' = "activated"
    /\ activate' = Activated
    /\ UNCHANGED <<slicerVars, appVars, storeVars, generations, task, started, now, putLog,
                   autoPinned>>

----------------------------------------------------------------------------
(* getDB: the database is opened by the first call, the promise kept *)

NumCallers == 3     \* the idb functions in flight at a time
MaxCalls == 2       \* the calls of getDB one of them makes, one after another

Callers == 1..NumCallers

\* A caller: const db = await getDB(). promise is the promise it awaits, 0
\* before the call; received is what the await gave, the handle or the error;
\* calls counts its calls of getDB.
NoHandle == 0
OpenFailed == -1
IdleCaller == [pc |-> "idle", promise |-> 0, received |-> NoHandle, calls |-> 0]

\* let dbPromise = null; no indexedDB.open call yet. A promise is named by the
\* number of the open call it wraps, and so is the handle the call gives.
NoDB == [dbPromise |-> 0, opens |-> <<>>, caller |-> [c \in Callers |-> IdleCaller]]

\* if (dbPromise) return dbPromise; dbPromise = new Promise(... indexedDB.open
\* ...); return dbPromise;
getDBNotMemoized(d) ==
    [d EXCEPT !.dbPromise = Len(d.opens) + 1, !.opens = Append(d.opens, "pending")]
getDB(d) ==
    IF d.dbPromise # 0 THEN d
    ELSE [d EXCEPT !.dbPromise = Len(d.opens) + 1, !.opens = Append(d.opens, "pending")]

\* One of the idb functions is called and runs to its await getDB().
GetDBCall(c) ==
    /\ db.caller[c].pc = "idle"
    /\ db.caller[c].calls < MaxCalls
    /\ LET d == getDB(db) IN
          db' = [d EXCEPT !.caller[c].pc = "await",
                          !.caller[c].promise = d.dbPromise,
                          !.caller[c].calls = @ + 1]
    /\ UNCHANGED <<slicerVars, lifeVars, storeVars, task, phase, started, now, putLog,
                   autoPinned, pwa>>

\* req.onsuccess = (e) => resolve(e.target.result);
OpenSuccess(k) ==
    /\ k \in DOMAIN db.opens
    /\ db.opens[k] = "pending"
    /\ db' = [db EXCEPT !.opens[k] = "success"]
    /\ UNCHANGED <<slicerVars, lifeVars, storeVars, task, phase, started, now, putLog,
                   autoPinned, pwa>>

\* req.onerror = (e) => reject(e.target.error);
OpenError(k) ==
    /\ k \in DOMAIN db.opens
    /\ db.opens[k] = "pending"
    /\ db' = [db EXCEPT !.opens[k] = "error"]
    /\ UNCHANGED <<slicerVars, lifeVars, storeVars, task, phase, started, now, putLog,
                   autoPinned, pwa>>

\* The promise a caller awaits has settled: the caller goes on with the handle,
\* or throws.
GetDBReturn(c) ==
    /\ db.caller[c].pc = "await"
    /\ db.opens[db.caller[c].promise] # "pending"
    /\ db' = [db EXCEPT
                 !.caller[c].pc = "idle",
                 !.caller[c].received =
                     IF db.opens[db.caller[c].promise] = "success"
                     THEN db.caller[c].promise ELSE OpenFailed]
    /\ UNCHANGED <<slicerVars, lifeVars, storeVars, task, phase, started, now, putLog,
                   autoPinned, pwa>>

----------------------------------------------------------------------------
(* app.js: the install prompt of the page *)

PROMPT_COOLDOWN_DAYS == 7
MAX_PROMPT_ATTEMPTS == 3

MaxDay == 9         \* the last day of the clock; time is counted in days
MaxAttempts == 4    \* most outcomes recorded

\* The page when the script has run, nothing in localStorage: the variables of
\* lines 7-8, the listeners attached, the native dialog, the stored state and
\* Date.now().
FirstVisit ==
    [deferredPrompt |-> FALSE, installBannerEl |-> FALSE,
     onVis |-> FALSE, onGesture |-> FALSE, visible |-> TRUE, dialog |-> FALSE,
     st |-> [lastShown |-> 0, attempts |-> 0], clock |-> 1]

canShowPromptNow(p) ==
    IF p.st.lastShown = 0 THEN TRUE
    ELSE IF p.clock < p.st.lastShown + PROMPT_COOLDOWN_DAYS THEN FALSE
    ELSE IF p.st.attempts >= MAX_PROMPT_ATTEMPTS THEN FALSE
    ELSE TRUE

recordPromptShown(p) ==
    [p EXCEPT !.st = [lastShown |-> p.clock, attempts |-> p.st.attempts + 1]]

createInstallBanner(p) ==
    IF p.installBannerEl \/ ~canShowPromptNow(p) THEN p
    ELSE [p EXCEPT !.installBannerEl = TRUE]

removeInstallBanner(p) == [p EXCEPT !.installBannerEl = FALSE]

\* await deferredPrompt.prompt() resolves: the native dialog is on the screen.
PromptShown(p) == [p EXCEPT !.dialog = TRUE]

waitForUserGestureThenPrompt(p) ==
    IF ~p.deferredPrompt THEN p
    ELSE createInstallBanner([p EXCEPT !.onGesture = TRUE])

\* shown: whether deferredPrompt.prompt() resolves or rejects
attemptPromptWithGestureFallback(p, shown) ==
    IF ~p.deferredPrompt THEN p
    ELSE IF ~canShowPromptNow(p) THEN createInstallBanner(p)
    ELSE IF shown THEN PromptShown(p)
    ELSE waitForUserGestureThenPrompt(p)

PageFrame ==
    UNCHANGED <<slicerVars, lifeVars, storeVars, task, phase, started, now, putLog,
                autoPinned, db>>

\* The page's events come while no native dialog is open and while fewer than
\* MaxAttempts outcomes are recorded.
PageReady == ~pwa.dialog /\ pwa.st.attempts < MaxAttempts

\* window "beforeinstallprompt", fired while no listener of an earlier one is
\* waiting. auto: cameFromExternalReferrer() || urlRequestsAutoPrompt().
BeforeInstallPrompt ==
    /\ PageReady /\ ~pwa.onVis /\ ~pwa.onGesture
    /\ \E auto, shown \in BOOLEAN :
          LET p == [pwa EXCEPT !.deferredPrompt = TRUE] IN
             pwa' = IF auto /\ canShowPromptNow(p)
                    THEN IF p.visible
                         THEN attemptPromptWithGestureFallback(p, shown)
                         ELSE [p EXCEPT !.onVis = TRUE]
                    ELSE createInstallBanner(p)
    /\ PageFrame

\* document "visibilitychange": onVis, when attached
VisibilityChange ==
    /\ PageReady
    /\ \E shown \in BOOLEAN :
          LET p == [pwa EXCEPT !.visible = ~@] IN
             pwa' = IF pwa.onVis
                    THEN attemptPromptWithGestureFallback([p EXCEPT !.onVis = FALSE],
                                                          shown)
                    ELSE p
    /\ PageFrame

\* document "pointerdown" or "keydown": onGesture, attached once
Gesture ==
    /\ PageReady /\ pwa.onGesture
    /\ \E shown \in BOOLEAN :
          LET p == [pwa EXCEPT !.onGesture = FALSE] IN
             pwa' = IF p.deferredPrompt /\ shown THEN PromptShown(p)
                    ELSE createInstallBanner(p)
    /\ PageFrame

\* The banner's "Install" button, its gesture already handled.
InstallClick ==
    /\ PageReady /\ pwa.installBannerEl /\ ~pwa.onGesture
    /\ \E shown \in BOOLEAN :
          pwa' = IF pwa.deferredPrompt /\ shown THEN PromptShown(pwa) ELSE pwa
    /\ PageFrame

\* The banner's "Maybe later" button.
CloseClick ==
    /\ PageReady /\ pwa.installBannerEl /\ ~pwa.onGesture
    /\ pwa' = removeInstallBanner(recordPromptShown(pwa))
    /\ PageFrame

\* window.pwa.triggerInstall()
triggerInstall ==
    /\ PageReady
    /\ \E shown \in BOOLEAN :
          pwa' = IF pwa.deferredPrompt /\ shown THEN PromptShown(pwa) ELSE pwa
    /\ PageFrame

\* const choice = await deferredPrompt.userChoice; recordPromptShown(...);
\* deferredPrompt = null; removeInstallBanner();
UserChoice ==
    /\ pwa.dialog
    /\ pwa' = removeInstallBanner([recordPromptShown(pwa) EXCEPT
                                      !.deferredPrompt = FALSE, !.dialog = FALSE])
    /\ PageFrame

\* window "appinstalled"
AppInstalled ==
    /\ PageReady
    /\ pwa' = removeInstallBanner([pwa EXCEPT !.deferredPrompt = FALSE])
    /\ PageFrame

\* A day passes.
PageTick ==
    /\ pwa.clock < MaxDay
    /\ pwa' = [pwa EXCEPT !.clock = @ + 1]
    /\ PageFrame

----------------------------------------------------------------------------
(* The worker: install, activate, then fetch events and messages, NumTasks at
   a time *)

Init ==
    /\ cache = <<>>
    /\ pins = EmptyStore
    /\ api = EmptyStore
    /\ task = [t \in Tasks |-> IdleTask]
    /\ phase = "parsed"
    /\ started = 0
    /\ now = 1
    /\ putLog = {}
    /\ autoPinned = {}
    /\ fullResponse = NoResponse
    /\ rangeHeader = Null
    /\ sliced = <<>>
    /\ db = NoDB
    /\ pwa = FirstVisit
    /\ generations \in SUBSET OldGenerations
    /\ activate = NotActivated

\* Date.now() moves on. Spec holds the clock still (a burst of events within
\* one millisecond); SpecIDB draws the records' timestamps freely.
Tick ==
    /\ now < MaxTime
    /\ now' = now + 1
    /\ UNCHANGED <<slicerVars, appVars, lifeVars, storeVars, task, phase, started, putLog, autoPinned>>

\* The steps of the tasks in flight.
FetchSteps(t) ==
    \/ NavFetch(t) \/ NavPut(t) \/ NavFallback(t)
    \/ MediaMatch(t) \/ RefreshFetch(t) \/ RefreshPut(t) \/ RefreshPin(t)
    \/ MediaFetch(t) \/ MissPut(t) \/ MissPin(t) \/ MissKeys(t) \/ MediaRematch(t)
    \/ StaticMatch(t) \/ StaticFetch(t) \/ StaticPut(t) \/ StaticRematch(t)
    \/ ApiFetch(t) \/ ApiPut(t) \/ ApiIdbGet(t) \/ ApiStatic(t)
    \/ PassFetch(t) \/ PassMatch(t)
    \/ TrimKeys(t) \/ TrimDelete(t) \/ TrimReturn(t)
    \/ TrimIDBGetAll(t) \/ TrimIDBDelete(t)

PinSteps(t) == PinMatch(t) \/ PinFetch(t) \/ PinPut(t) \/ PinMark(t) \/ PinKeys(t)

RemoveSteps(t) == UnpinDelete(t) \/ DeleteCache(t) \/ DeletePin(t)

InstallSteps(t) == InstallFetch(t) \/ InstallPut(t)

Next ==
    \/ InstallStart
    \/ InstallDone
    \/ ActivateStart
    \/ \E k \in OldGenerations : ActivateDelete(k)
    \/ ActivateClaim
    \/ \E t \in Tasks : \E req \in Requests : FetchStart(t, req)
    \/ \E t \in Tasks : \E url \in CommandUrls :
          \E action \in {"pin", "unpin", "delete"} : MessageStart(t, action, url)
    \/ \E t \in Tasks : InstallSteps(t) \/ FetchSteps(t) \/ PinSteps(t) \/ RemoveSteps(t)

Spec == Init /\ [][Next]_vars

----------------------------------------------------------------------------
(* The worker handling one event at a time, with no unpin and no delete *)

Quiet == \A t \in Tasks : Free(t)

NextScenario ==
    \/ InstallStart
    \/ InstallDone
    \/ ActivateStart
    \/ \E k \in OldGenerations : ActivateDelete(k)
    \/ ActivateClaim
    \/ \E t \in Tasks : \E req \in Requests : Quiet /\ FetchStart(t, req)
    \/ \E t \in Tasks : \E url \in CommandUrls : Quiet /\ MessageStart(t, "pin", url)
    \/ \E t \in Tasks : InstallSteps(t) \/ FetchSteps(t) \/ PinSteps(t)

SpecScenario == Init /\ [][NextScenario]_vars

\* The same, with the install handler running on: every fetch of the model
\* settles, and the event loop runs each continuation that is ready.
InstallProgress == InstallStart \/ InstallDone \/ \E t \in Tasks : InstallSteps(t)

SpecScenarioFair == SpecScenario /\ WF_vars(InstallProgress)

----------------------------------------------------------------------------
(* The classification on its own: one fetch event, any request *)

ClassifiedUrls ==
    Urls \cup {UpperVideoUrl, PlaylistUrl, RemoteVideoUrl, RemoteJsonUrl,
               QueryJsonUrl, SelfJsonUrl}
Destinations == {"document", "script", "style", "image", "font", "video", ""}
ClassifiedRequests ==
    {Request(method, mode, destination, url, accept, Null) :
        method \in {"GET", "POST"}, mode \in {"navigate", "cors"},
        destination \in Destinations, url \in ClassifiedUrls,
        accept \in {{"*/*"}, {"application/json"}}}

\* The worker is active, nothing is stored (no core asset could be fetched).
InitClassify ==
    /\ cache = <<>>
    /\ pins = EmptyStore
    /\ api = EmptyStore
    /\ task = [t \in Tasks |-> IdleTask]
    /\ phase = "activated"
    /\ started = 0
    /\ now = 1
    /\ putLog = {}
    /\ autoPinned = {}
    /\ fullResponse = NoResponse
    /\ rangeHeader = Null
    /\ sliced = <<>>
    /\ db = NoDB
    /\ pwa = FirstVisit
    /\ generations = {CACHE_NAME}
    /\ activate = Activated

NextClassify ==
    \E t \in Tasks : \E req \in ClassifiedRequests : Quiet /\ FetchStart(t, req)

SpecClassify == InitClassify /\ [][NextClassify]_vars

----------------------------------------------------------------------------
(* The worker handling one event at a time, any store operation failing *)

NextFaults ==
    \/ NextScenario
    \/ \E t \in Tasks : FaultSteps(t)

SpecFaults == Init /\ [][NextFaults]_vars

----------------------------------------------------------------------------
(* The slicer on its own: any stored payload, any range header, called twice *)

RangeHeaders == {Null} \cup SeqsUpTo(HdrTokens, MaxHdrLen)
ContentTypes == {NoType, "video/webm"}

\* The Response is the one cache.match gives for a cached, pinned video.
InitSlice ==
    /\ \E n \in 0..MaxSize, ct \in ContentTypes :
           /\ fullResponse = Response(200, ct, Payload(n))
           /\ cache = <<Entry(VideoUrl, 200, Payload(n))>>
    /\ rangeHeader \in RangeHeaders
    /\ sliced = <<>>
    /\ db = NoDB
    /\ pwa = FirstVisit
    /\ generations = {CACHE_NAME}
    /\ activate = Activated
    /\ pins = IdbPut(EmptyStore, VideoUrl, 1)
    /\ api = EmptyStore
    /\ task = [t \in Tasks |-> IdleTask]
    /\ phase = "activated"
    /\ started = 0
    /\ now = 1
    /\ putLog = {}
    /\ autoPinned = {}

ServeRange ==
    /\ Len(sliced) < 2
    /\ LET r == serveRangeFromFullResponse(fullResponse, rangeHeader) IN
          /\ sliced' = Append(sliced, r.resp)
          /\ fullResponse' = r.full
    /\ UNCHANGED <<rangeHeader, appVars, storeVars, lifeVars, task, phase, started, now, putLog,
                   autoPinned>>

NextSlice == ServeRange

SpecSlice == InitSlice /\ [][NextSlice]_vars

----------------------------------------------------------------------------
(* trimCache on its own: any cache, any cap, any exempt set, no other task *)

MaxCache == 4       \* most entries of the cache trimCache is run on
TrimUrls == {UrlOrder[i] : i \in 1..MaxCache}

\* the sequences of distinct elements of S
DistinctSeqs(S) ==
    {q \in SeqsUpTo(S, Cardinality(S)) : \A i, j \in 1..Len(q) : i # j => q[i] # q[j]}

InitTrim ==
    /\ \E keys \in DistinctSeqs(TrimUrls) :
          cache = [i \in 1..Len(keys) |-> Entry(keys[i], 200, <<>>)]
    /\ \E maxItems \in 0..MaxCache, excludeUrls \in SUBSET TrimUrls :
          task = [t \in Tasks |->
                    IF t = 1
                    THEN [IdleTask EXCEPT !.kind = "trimCache", !.pc = "trim_keys",
                                          !.maxItems = maxItems,
                                          !.excludeUrls = excludeUrls]
                    ELSE IdleTask]
    /\ pins = EmptyStore
    /\ api = EmptyStore
    /\ fullResponse = NoResponse
    /\ rangeHeader = Null
    /\ sliced = <<>>
    /\ db = NoDB
    /\ pwa = FirstVisit
    /\ generations = {CACHE_NAME}
    /\ activate = Activated
    /\ phase = "activated"
    /\ started = 0
    /\ now = 1
    /\ putLog = {}
    /\ autoPinned = {}

NextTrim == \E t \in Tasks : TrimKeys(t) \/ TrimDelete(t) \/ TrimReturn(t)

SpecTrim == InitTrim /\ [][NextTrim]_vars

----------------------------------------------------------------------------
(* trimIDBStore on its own: any API_STORE, any cap, no other task *)

MaxRecords == 3     \* most records of the store trimIDBStore is run on
RecordUrls == {UrlOrder[i] : i \in 1..MaxRecords}
Timestamps == {NoTimestamp} \cup 0..MaxTime

InitIDB ==
    /\ \E S \in SUBSET RecordUrls : \E ts \in [S -> Timestamps] :
          api = [u \in S |-> ApiRecord("data", ts[u])]
    /\ \E maxEntries \in 0..MaxRecords :
          task = [t \in Tasks |->
                    IF t = 1
                    THEN [IdleTask EXCEPT !.kind = "trimIDBStore", !.pc = "idb_getall",
                                          !.maxEntries = maxEntries]
                    ELSE IdleTask]
    /\ cache = <<>>
    /\ pins = EmptyStore
    /\ fullResponse = NoResponse
    /\ rangeHeader = Null
    /\ sliced = <<>>
    /\ db = NoDB
    /\ pwa = FirstVisit
    /\ generations = {CACHE_NAME}
    /\ activate = Activated
    /\ phase = "activated"
    /\ started = 0
    /\ now = MaxTime
    /\ putLog = {}
    /\ autoPinned = {}

NextIDB == \E t \in Tasks : TrimIDBGetAll(t) \/ TrimIDBDelete(t)

SpecIDB == InitIDB /\ [][NextIDB]_vars

----------------------------------------------------------------------------
(* getDB alone: NumCallers functions call it, each MaxCalls times *)

InitDB ==
    /\ Init
    /\ phase = "parsed" /\ generations = {}

NextDB ==
    \/ \E c \in Callers : GetDBCall(c) \/ GetDBReturn(c)
    \/ \E k \in 1..(NumCallers * MaxCalls) : OpenSuccess(k) \/ OpenError(k)

SpecDB == InitDB /\ [][NextDB]_vars

----------------------------------------------------------------------------
(* The install prompt alone: the page's events, day after day *)

InitPrompt ==
    /\ Init
    /\ phase = "parsed" /\ generations = {}

NextPrompt ==
    \/ BeforeInstallPrompt \/ VisibilityChange \/ Gesture
    \/ InstallClick \/ CloseClick \/ triggerInstall
    \/ UserChoice \/ AppInstalled \/ PageTick

SpecPrompt == InitPrompt /\ [][NextPrompt]_vars

----------------------------------------------------------------------------
(* The commands on their own: any cache, any pins, one command at a time *)

\* The addresses of the entries and markers, and those of the commands.
StoredUrls == {IndexUrl, AppJsUrl, VideoUrl}
PinnableUrls == {AppJsUrl, VideoUrl}

\* The entry a full answer of the server leaves in the cache.
FullEntry(u) == Entry(u, 200, IF u = VideoUrl THEN Payload(MaxSize) ELSE Payload(1))

\* The worker is active; earlier events have filled the cache and set markers.
InitCommands ==
    /\ \E keys \in DistinctSeqs(StoredUrls) :
          cache = [i \in 1..Len(keys) |-> FullEntry(keys[i])]
    /\ \E pinned \in SUBSET PinnableUrls : pins = [u \in pinned |-> 1]
    /\ api = EmptyStore
    /\ task = [t \in Tasks |-> IdleTask]
    /\ phase = "activated"
    /\ started = 0
    /\ now = 1
    /\ putLog = {}
    /\ autoPinned = {}
    /\ fullResponse = NoResponse
    /\ rangeHeader = Null
    /\ sliced = <<>>
    /\ db = NoDB
    /\ pwa = FirstVisit
    /\ generations = {CACHE_NAME}
    /\ activate = Activated

TrimSteps(t) == TrimKeys(t) \/ TrimDelete(t) \/ TrimReturn(t)

NextCommands ==
    \/ \E t \in Tasks : \E url \in PinnableUrls :
          \E action \in {"pin", "unpin", "delete"} : Quiet /\ MessageStart(t, action, url)
    \/ \E t \in Tasks : PinSteps(t) \/ RemoveSteps(t) \/ TrimSteps(t)

SpecCommands == InitCommands /\ [][NextCommands]_vars

----------------------------------------------------------------------------
(* Handlers racing: pin commands and media requests, NumTasks at a time, on
   any cache and any markers *)

\* The worker is active; earlier events have filled the cache and marked some
\* of the addresses.
InitRace ==
    /\ \E keys \in DistinctSeqs(StoredUrls) :
          cache = [i \in 1..Len(keys) |-> FullEntry(keys[i])]
    /\ \E pinned \in SUBSET StoredUrls : pins = [u \in pinned |-> 1]
    /\ api = EmptyStore
    /\ task = [t \in Tasks |-> IdleTask]
    /\ phase = "activated"
    /\ started = 0
    /\ now = 1
    /\ putLog = {}
    /\ autoPinned = {}
    /\ fullResponse = NoResponse
    /\ rangeHeader = Null
    /\ sliced = <<>>
    /\ db = NoDB
    /\ pwa = FirstVisit
    /\ generations = {CACHE_NAME}
    /\ activate = Activated

MediaRequests == {r \in Requests : r.url = VideoUrl}

MediaSteps(t) ==
    \/ MediaMatch(t) \/ RefreshFetch(t) \/ RefreshPut(t) \/ RefreshPin(t)
    \/ MediaFetch(t) \/ MissPut(t) \/ MissPin(t) \/ MissKeys(t) \/ MediaRematch(t)

NextRace ==
    \/ \E t \in Tasks : \E url \in PinnableUrls : MessageStart(t, "pin", url)
    \/ \E t \in Tasks : \E req \in MediaRequests : FetchStart(t, req)
    \/ \E t \in Tasks : PinSteps(t) \/ MediaSteps(t) \/ TrimSteps(t)

SpecRace == InitRace /\ [][NextRace]_vars

----------------------------------------------------------------------------
(* Structured-data handlers racing: NumTasks at a time, the clock running, on
   any records *)

ApiRequests == {r \in Requests : r.method = "GET" /\ Strategy(r) = "structured-data"}
ApiUrls == {r.url : r \in ApiRequests}

\* The worker is active; earlier requests have left records.
InitApiRace ==
    /\ \E S \in SUBSET ApiUrls : api = [u \in S |-> ApiRecord("{}", 1)]
    /\ cache = <<>>
    /\ pins = EmptyStore
    /\ task = [t \in Tasks |-> IdleTask]
    /\ phase = "activated"
    /\ started = 0
    /\ now = 1
    /\ putLog = {}
    /\ autoPinned = {}
    /\ fullResponse = NoResponse
    /\ rangeHeader = Null
    /\ sliced = <<>>
    /\ db = NoDB
    /\ pwa = FirstVisit
    /\ generations = {CACHE_NAME}
    /\ activate = Activated

ApiSteps(t) ==
    \/ ApiFetch(t) \/ ApiPut(t) \/ ApiIdbGet(t) \/ ApiStatic(t)
    \/ TrimIDBGetAll(t) \/ TrimIDBDelete(t)

NextApiRace ==
    \/ \E t \in Tasks : \E req \in ApiRequests : FetchStart(t, req)
    \/ \E t \in Tasks : ApiSteps(t)
    \/ Tick

SpecApiRace == InitApiRace /\ [][NextApiRace]_vars

----------------------------------------------------------------------------
(* The range slicer: C3 - C6 *)

\* The header is exactly bytes=<start>-[<end>]: "bytes=", one or more digits,
\* "-", then digits or nothing.
ExactForm(h) ==
    /\ h # Null
    /\ \E i \in 3..Len(h) :
          /\ h[1] = "bytes="
          /\ h[i] = "-"
          /\ \A k \in 2..(i - 1) : h[k] \in Digits
          /\ \A k \in (i + 1)..Len(h) : h[k] \in Digits

\* Of a header of the exact form: the place of its "-", its start, its end.
DashOf(h) == CHOOSE i \in 3..Len(h) : h[i] = "-"
StartOf(h) == Number(SubSeq(h, 2, DashOf(h) - 1))
EndGiven(h) == DashOf(h) < Len(h)
EndOf(h) == Number(SubSeq(h, DashOf(h) + 1, Len(h)))
EffectiveEnd(h, N) == IF EndGiven(h) /\ EndOf(h) < N THEN EndOf(h) ELSE N - 1

Called == Len(sliced) >= 1
StoredSize == Len(fullResponse.body)

\* C3: for a header bytes=s-[e] with s < N and s <= effectiveEnd, the result is
\* a 206 whose body is the bytes s..effectiveEnd of the payload, with
\* Content-Range bytes s-effectiveEnd/N, Accept-Ranges bytes and
\* Content-Length effectiveEnd - s + 1.
C3_RangeCorrect ==
    (/\ Called
     /\ ExactForm(rangeHeader)
     /\ StartOf(rangeHeader) < StoredSize
     /\ StartOf(rangeHeader) <= EffectiveEnd(rangeHeader, StoredSize))
    => LET s == StartOf(rangeHeader)
           e == EffectiveEnd(rangeHeader, StoredSize)
           r == sliced[1]
       IN /\ r.status = 206
          /\ ~r.bodyNull
          /\ Len(r.body) = e - s + 1
          /\ \A k \in 0..(e - s) : r.body[k + 1] = fullResponse.body[s + k + 1]
          /\ r.contentRange = ContentRange(s, e, StoredSize)
          /\ r.acceptRanges = "bytes"
          /\ r.contentLength = e - s + 1

\* C3 witness: bytes=1-1 of a three byte payload was served.
C3_Witness ==
    /\ Called
    /\ rangeHeader = <<"bytes=", "1", "-", "1">>
    /\ StoredSize = 3
    /\ sliced[1].status = 206

\* C4: a range of the exact form whose start is >= the payload size, or greater
\* than the effective end, gets a 416 with no body and Content-Range bytes */N.
C4_UnsatisfiableRange ==
    (/\ Called
     /\ ExactForm(rangeHeader)
     /\ \/ StartOf(rangeHeader) >= StoredSize
        \/ StartOf(rangeHeader) > EffectiveEnd(rangeHeader, StoredSize))
    => /\ sliced[1].status = 416
       /\ sliced[1].bodyNull
       /\ sliced[1].contentRange = ContentRangeStar(StoredSize)

\* C4 witness: bytes=2-1 (start beyond the end) of a three byte payload.
C4_Witness ==
    /\ Called
    /\ rangeHeader = <<"bytes=", "2", "-", "1">>
    /\ StoredSize = 3
    /\ sliced[1].status = 416

\* C5 (as claimed): a range header that is present and not exactly of the form
\* bytes=<start>-[<end>] gets a 416 with no body, never a 206.
C5_UnparseableIs416 ==
    (Called /\ rangeHeader # Null /\ rangeHeader # <<>> /\ ~ExactForm(rangeHeader))
    => sliced[1].status = 416 /\ sliced[1].bodyNull

\* C6: two calls with the same Response object and the same range header give
\* the same status, headers and body; the Response object is left unread, and
\* the stored entry, the pin store and the record store are as before the calls.
C6_IdempotentSlicing ==
    /\ Len(sliced) = 2 => sliced[1] = sliced[2]
    /\ Called =>
          /\ ~fullResponse.bodyUsed
          /\ cache = <<Entry(VideoUrl, 200, fullResponse.body)>>
          /\ pins = IdbPut(EmptyStore, VideoUrl, 1)
          /\ api = EmptyStore

\* C6 witness: a slice was served twice.
C6_Witness ==
    Len(sliced) = 2 /\ sliced[2].status = 206 /\ Len(sliced[2].body) = 2

----------------------------------------------------------------------------
(* The trims on their own: C7 - C9 *)

\* the place of url k in the keys the trim read
PlaceIn(keys, k) == CHOOSE i \in 1..Len(keys) : keys[i] = k
SeqRange(q) == {q[i] : i \in 1..Len(q)}
Min(a, b) == IF a < b THEN a ELSE b
Max(a, b) == IF a > b THEN a ELSE b

\* C7: a trim of a cache of more than maxItems entries deletes no entry whose
\* url is in the exempt set, and every entry it deleted is older in insertion
\* order than every non-exempt entry still there.
C7_PinExemption ==
    \A t \in Tasks :
        (task[t].kind = "trimCache" /\ Len(task[t].keys) > task[t].maxItems)
        => /\ \A d \in SeqRange(task[t].deleted) : d \notin task[t].excludeUrls
           /\ \A x \in task[t].excludeUrls \cap SeqRange(task[t].keys) :
                 CacheMatch(cache, x) # NoEntry
           /\ \A d \in SeqRange(task[t].deleted) :
                 \A r \in SeqRange(CacheKeys(cache)) \ task[t].excludeUrls :
                     PlaceIn(task[t].keys, d) < PlaceIn(task[t].keys, r)

\* C7 witness: the trim has returned; it skipped an exempt entry older than one
\* it deleted, and left a non-exempt entry.
C7_Witness ==
    \E t \in Tasks :
        /\ task[t].kind = "trimCache" /\ task[t].pc = "done"
        /\ \E d \in SeqRange(task[t].deleted) :
              \E x \in task[t].excludeUrls \cap SeqRange(task[t].keys) :
                  PlaceIn(task[t].keys, x) < PlaceIn(task[t].keys, d)
        /\ SeqRange(CacheKeys(cache)) \ task[t].excludeUrls # {}

\* C8: after a trim of a cache of K entries, X of them exempt: the cache is as
\* it was when K <= maxItems; otherwise min(K - maxItems, K - X) entries were
\* deleted and max(maxItems, X) are left.
C8_TrimResultSize ==
    \A t \in Tasks :
        (task[t].kind = "trimCache" /\ task[t].pc = "done")
        => LET K == Len(task[t].keys)
               X == Cardinality(task[t].excludeUrls \cap SeqRange(task[t].keys))
           IN IF K <= task[t].maxItems
              THEN CacheKeys(cache) = task[t].keys /\ task[t].deleted = <<>>
              ELSE /\ Len(task[t].deleted) = Min(K - task[t].maxItems, K - X)
                   /\ Len(cache) = Max(task[t].maxItems, X)
                   /\ Len(cache) = K - Len(task[t].deleted)

\* C8 witness: the exempt entries alone exceed the cap; the trim deleted what it
\* could and returned with the cache over the cap.
C8_Witness ==
    \E t \in Tasks :
        /\ task[t].kind = "trimCache" /\ task[t].pc = "done"
        /\ Len(task[t].deleted) >= 1
        /\ Len(cache) > task[t].maxItems

\* C9: after trimIDBStore(store, N) on a store of M records: when M > N exactly
\* N records are left and each has a timestamp (0 when missing) >= that of
\* every deleted record; when M <= N the store is as it was.
C9_RecordTrim ==
    \A t \in Tasks :
        (task[t].kind = "trimIDBStore" /\ task[t].pc = "done")
        => LET all == task[t].all
               M == Len(all)
               N == task[t].maxEntries
               before == {all[i] : i \in 1..M}
               left == {r \in before : r.url \in DOMAIN api}
           IN /\ \A r \in left : api[r.url] = ApiRecord(r.data, r.timestamp)
              /\ Cardinality(left) = Cardinality(DOMAIN api)
              /\ IF M > N
                 THEN /\ Cardinality(DOMAIN api) = N
                      /\ \A r \in left : \A d \in before \ left :
                            TimestampOrZero(r) >= TimestampOrZero(d)
                 ELSE left = before

\* C9 witness: records were deleted, one without a timestamp among them, and a
\* record is left.
C9_Witness ==
    \E t \in Tasks :
        /\ task[t].kind = "trimIDBStore" /\ task[t].pc = "done"
        /\ Len(task[t].all) > task[t].maxEntries
        /\ DOMAIN api # {}
        /\ \E i \in 1..Len(task[t].all) :
              /\ task[t].all[i].url \notin DOMAIN api
              /\ task[t].all[i].timestamp = NoTimestamp

----------------------------------------------------------------------------
(* The worker: C1, C2, C10 *)

FetchTasks == {t \in Tasks : task[t].kind = "fetch"}

\* C1 (as claimed): a GET request that is neither navigation nor media and whose
\* accept header has a JSON media type, or whose path contains /api/ or ends in
\* .json, is handled by the structured-data strategy, not the static-asset one.
C1_StructuredDataFirst ==
    \A t \in FetchTasks :
        LET req == task[t].req
            url == NewURL(req.url)
        IN (/\ req.method = "GET"
            /\ ~(req.mode = "navigate" \/ req.destination = "document")
            /\ ~isVideoRequest(req, url)
            /\ isAPIRequest(req, url))
           => task[t].strategy = "structured-data"

\* C2 (as claimed): no cache entry has status 206, and no response of status 206
\* is passed to a cache.put.
C2_PartialNeverCached ==
    /\ \A i \in 1..Len(cache) : cache[i].status # 206
    /\ \A p \in putLog : p.status # 206

\* C10: when the put-pin-trim task of a media cache miss answered by a full 200
\* ends, the cache holds that payload under the address and the address is
\* pinned; a later media request for the address finds the entry, and when it
\* carries a satisfiable range bytes=s-[e] it is answered 206 with the bytes
\* s..effectiveEnd of the entry.
MissTaskEnds(t) ==
    /\ task[t].kind = "fetch" /\ task[t].strategy = "media"
    /\ task[t].cached = NoEntry /\ ~task[t].net.failed /\ task[t].net.status = 200
    /\ task[t].pc # "done" /\ task'[t].pc = "done"

LaterLookup(t) ==
    /\ task[t].pc = "media_match" /\ task'[t].pc # "media_match"
    /\ task[t].url \in autoPinned

C10_MissThenRange ==
    [][\A t \in Tasks :
         /\ MissTaskEnds(t) =>
               /\ CacheMatch(cache', task[t].url)
                     = Entry(task[t].url, 200, task[t].net.body)
               /\ task[t].url \in DOMAIN pins'
         /\ LaterLookup(t) =>
               LET e == CacheMatch(cache, task[t].url)
                   h == task[t].req.range
                   r == task'[t].resp
               IN /\ e # NoEntry
                  /\ task'[t].cached = e
                  /\ (ExactForm(h) /\ StartOf(h) < Len(e.body)
                        /\ StartOf(h) <= EffectiveEnd(h, Len(e.body)))
                     => /\ r.status = 206
                        /\ r.body = SubSeq(e.body, StartOf(h) + 1,
                                           EffectiveEnd(h, Len(e.body)) + 1)
                        /\ r.contentRange = ContentRange(StartOf(h),
                               EffectiveEnd(h, Len(e.body)), Len(e.body))
      ]_vars

\* C10 witness: after a cache miss stored the three byte video, a request for
\* bytes=2-2 was answered from the cache with the third byte.
C10_Witness ==
    \E t \in FetchTasks :
        /\ task[t].url \in autoPinned
        /\ task[t].cached = Entry(VideoUrl, 200, Payload(3))
        /\ task[t].req.range = <<"bytes=", "2", "-", "2">>
        /\ task[t].resp.status = 206
        /\ task[t].resp.body = <<13>>

----------------------------------------------------------------------------
(* The fallbacks of the fetch handler: C11 - C13 *)

\* A GET request the classification of section 4.1 calls structured-data: not
\* a navigation, not media, and with a JSON accept header, an /api/ path
\* segment or a path ending in .json.
StructuredDataRequest(req) ==
    /\ req.method = "GET"
    /\ ~(req.mode = "navigate" \/ req.destination = "document")
    /\ ~(req.destination = "video" \/ NewURL(req.url).ext \in {"mp4", "webm", "ogg", "m3u8"})
    /\ \/ "application/json" \in req.accept
       \/ "api" \in SeqRange(NewURL(req.url).dirs)
       \/ NewURL(req.url).ext = "json"

\* Task t is a fetch handler that takes its last step, its network call having failed.
EndsOffline(t) ==
    /\ task[t].kind = "fetch"
    /\ task[t].pc # "done"
    /\ task'[t].pc = "done"
    /\ task'[t].net.failed

C12_UniformSentinel ==
    [][\A t \in Tasks :
          (task[t].kind = "fetch" /\ task[t].req.method = "GET"
              /\ task[t].strategy # "navigation") =>
             /\ (/\ EndsOffline(t)
                 /\ CacheMatch(cache, task[t].url) = NoEntry
                 /\ task[t].url \notin DOMAIN api)
                   => (task'[t].resp.status = 503 /\ task'[t].resp.body = <<>>)
             /\ (task[t].resp.status # 503 /\ task'[t].kind = "fetch"
                    /\ task'[t].resp.status = 503 /\ task'[t].resp.body = <<>>)
                   => (task'[t].net.failed /\ CacheMatch(cache, task[t].url) = NoEntry)
      ]_vars

\* Task t handles a navigation request.
Navigation(t) ==
    /\ task[t].kind = "fetch" /\ task[t].req.method = "GET"
    /\ (task[t].req.mode = "navigate" \/ task[t].req.destination = "document")

\* The entry the fallback of a navigation returns: index.html, else the root.
CachedIndex ==
    IF CacheMatch(cache, IndexUrl) # NoEntry THEN CacheMatch(cache, IndexUrl)
    ELSE CacheMatch(cache, RootUrl)

\* The two parts of C13 that hold as claimed: the network response is returned
\* as it is, the cache not yet written; after a failed network call the
\* cached index or root entry is returned, else the offline page of status 200.
NavigationAnswers(t) ==
    /\ (task[t].pc = "nav_fetch" /\ task'[t].pc # "nav_fetch" /\ ~task'[t].net.failed) =>
          /\ task'[t].resp = AsResponse(task'[t].net)
          /\ cache' = cache
    /\ (task[t].pc = "nav_fallback" /\ task'[t].pc = "done") =>
          /\ task[t].net.failed
          /\ task'[t].resp = IF CachedIndex # NoEntry THEN EntryResponse(CachedIndex)
                              ELSE OfflinePage
          /\ OfflinePage.status = 200

\* C13 (as claimed): NavigationAnswers, and a navigation request is never
\* answered with status 503.
C13_NavigationFallback ==
    [][\A t \in Tasks :
          (Navigation(t) /\ task'[t].kind = "fetch") =>
              (NavigationAnswers(t) /\ task'[t].resp.status # 503)]_vars

\* C13 (amended): NavigationAnswers, and the handler never makes a 503 for a
\* navigation request: an answer of status 503 is the network's response, or
\* the cached index or root entry, itself a stored response of the network.
C13_NavigationFallbackAmended ==
    [][\A t \in Tasks :
          (Navigation(t) /\ task'[t].kind = "fetch") =>
              /\ NavigationAnswers(t)
              /\ (task'[t].resp # task[t].resp /\ task'[t].resp.status = 503) =>
                    \/ (~task'[t].net.failed /\ task'[t].resp = AsResponse(task'[t].net))
                    \/ (task'[t].net.failed /\ \E e \in SeqRange(cache) :
                            e.url \in {IndexUrl, RootUrl} /\ task'[t].resp = EntryResponse(e))
      ]_vars

\* C13 witness: the network failed, index.html is not cached, and the
\* navigation was answered with the cached root entry.
C13_Witness ==
    \E t \in Tasks :
        /\ Navigation(t) /\ task[t].pc = "done" /\ task[t].net.failed
        /\ CacheMatch(cache, IndexUrl) = NoEntry
        /\ CacheMatch(cache, RootUrl) # NoEntry
        /\ task[t].resp = EntryResponse(CacheMatch(cache, RootUrl))

----------------------------------------------------------------------------
(* The classification of requests: C14, C15 *)

FiveStrategies == {"navigation", "media", "static-asset", "structured-data", "passthrough"}

\* The steps of each strategy: its cache and store reads and writes, its
\* network calls, and the trims it starts.
StepsOf(strategy) ==
    CASE strategy = "navigation" -> {"nav_fetch", "nav_put", "nav_fallback"}
      [] strategy = "media" ->
             {"media_match", "refresh_fetch", "refresh_put", "refresh_pin",
              "media_fetch", "miss_put", "miss_pin", "miss_keys", "media_rematch",
              "trim_keys", "trim_loop"}
      [] strategy = "static-asset" ->
             {"static_match", "static_fetch", "static_put", "static_rematch"}
      [] strategy = "structured-data" ->
             {"api_fetch", "api_put", "api_idbget", "api_static",
              "idb_getall", "idb_delete"}
      [] strategy = "passthrough" -> {"pass_fetch", "pass_match"}

\* C14: every GET request is handled by one of the five strategies, of which
\* it takes steps only, and it is done only with a response produced.
C14_ClassificationTotal ==
    \A t \in Tasks :
        (task[t].kind = "fetch" /\ task[t].req.method = "GET") =>
            /\ task[t].strategy \in FiveStrategies
            /\ task[t].pc \in StepsOf(task[t].strategy) \cup {"done"}
            /\ task[t].pc = "done" => task[t].resp # NoResponse

\* C14 witness: a media request that found nothing cached and no network is
\* done, answered by the media strategy itself.
C14_Witness ==
    \E t \in Tasks :
        /\ task[t].kind = "fetch" /\ task[t].strategy = "media"
        /\ NewURL(task[t].url).origin = LocationOrigin
        /\ task[t].net.failed /\ task[t].cached = NoEntry
        /\ task[t].pc = "done" /\ task[t].resp = Unavailable

\* The media extensions, in the two cases the addresses of the model use.
MediaExtensions == {"mp4", "webm", "ogg", "m3u8", "MP4", "WEBM", "OGG", "M3U8"}

\* C15: a GET request that is not a navigation, and whose destination is
\* video or whose path ends in a media extension, is handled by the media
\* strategy, same-origin or not.
C15_MediaBeforeOrigin ==
    \A t \in Tasks :
        (/\ task[t].kind = "fetch" /\ task[t].req.method = "GET"
         /\ ~(task[t].req.mode = "navigate" \/ task[t].req.destination = "document")
         /\ \/ task[t].req.destination = "video"
            \/ NewURL(task[t].url).ext \in MediaExtensions)
        => (task[t].strategy = "media" /\ task[t].pc = "media_match")

\* C15 witness: a same-origin request for an image whose path ends in .MP4
\* is handled by the media strategy.
C15_Witness ==
    \E t \in Tasks :
        /\ task[t].kind = "fetch" /\ task[t].req.method = "GET"
        /\ task[t].url = UpperVideoUrl
        /\ task[t].req.destination = "image"
        /\ task[t].strategy = "media"

----------------------------------------------------------------------------
(* The commands: C16 - C18 *)

\* the entries of cache c of addresses other than url
OtherEntries(c, url) == SelectSeq(c, LAMBDA e : e.url # url)
\* the markers of store p of addresses other than url
OtherMarkers(p, url) == [k \in DOMAIN p \ {url} |-> p[k]]

\* Task t is a command of the given kind that takes its last step.
CommandEnds(t, kind) ==
    task[t].kind = kind /\ task[t].pc # "done" /\ task'[t].pc = "done"

\* C16: when a pin command ends, the address has a marker, and it has an
\* entry exactly if it had one when the command looked or the command's fetch
\* gave a full 200; the command puts nothing else in the cache.
C16_PinCommand ==
    [][\A t \in Tasks :
          /\ CommandEnds(t, "pin") =>
                /\ task[t].url \in DOMAIN pins'
                /\ (CacheMatch(cache', task[t].url) # NoEntry)
                     <=> \/ task[t].cached # NoEntry
                         \/ (~task[t].net.failed /\ task[t].net.status = 200)
          /\ (task[t].kind = "pin" /\ task[t].pc # "done") =>
                \A e \in SeqRange(cache') \ SeqRange(cache) :
                    /\ e = Entry(task[t].url, 200, task[t].net.body)
                    /\ task[t].cached = NoEntry
                    /\ task[t].net.status = 200
      ]_vars

\* C16 witness: a pin whose fetch was answered 404 has ended: a marker, no entry.
C16_Witness ==
    \E t \in Tasks :
        /\ task[t].kind = "pin" /\ task[t].pc = "done"
        /\ task[t].net.status = 404
        /\ task[t].url \in DOMAIN pins
        /\ CacheMatch(cache, task[t].url) = NoEntry

\* C17: the step of an unpin command removes the marker of its address and
\* changes nothing else: not the cache, not the records, not another marker;
\* and a trim that starts later exempts the addresses that have a marker
\* then, so not this one.
C17_UnpinCommand ==
    [][\A t \in Tasks :
          /\ (task[t].kind = "unpin" /\ task[t].pc # "done") =>
                /\ task[t].url \notin DOMAIN pins'
                /\ OtherMarkers(pins', task[t].url) = OtherMarkers(pins, task[t].url)
                /\ cache' = cache
                /\ api' = api
          /\ (task[t].pc # "trim_keys" /\ task'[t].pc = "trim_keys") =>
                task'[t].excludeUrls = DOMAIN pins
      ]_vars

\* C17 witness: a pin command stored and marked the video, an unpin command
\* has ended: the marker is gone, the entry is there.
C17_Witness ==
    \E t \in Tasks :
        /\ task[t].kind = "unpin" /\ task[t].pc = "done"
        /\ task[t].url = VideoUrl
        /\ [site |-> "pin", status |-> 200] \in putLog
        /\ VideoUrl \notin DOMAIN pins
        /\ CacheMatch(cache, VideoUrl) # NoEntry

\* C18: when a delete command ends, with no other handler in flight, its
\* address has neither entry nor marker; and each of its steps leaves the
\* entries and markers of the other addresses as they are.
C18_DeleteCommand ==
    [][\A t \in Tasks :
          /\ CommandEnds(t, "delete") =>
                /\ CacheMatch(cache', task[t].url) = NoEntry
                /\ task[t].url \notin DOMAIN pins'
          /\ (task[t].kind = "delete" /\ task[t].pc # "done") =>
                /\ OtherEntries(cache', task[t].url) = OtherEntries(cache, task[t].url)
                /\ OtherMarkers(pins', task[t].url) = OtherMarkers(pins, task[t].url)
      ]_vars

\* C18 witness: a pin command stored and marked the video, a delete command
\* has ended: neither is left, while app.js has its entry and its marker.
C18_Witness ==
    \E t \in Tasks :
        /\ task[t].kind = "delete" /\ task[t].pc = "done"
        /\ task[t].url = VideoUrl
        /\ [site |-> "pin", status |-> 200] \in putLog
        /\ VideoUrl \notin DOMAIN pins
        /\ CacheMatch(cache, VideoUrl) = NoEntry
        /\ AppJsUrl \in DOMAIN pins
        /\ CacheMatch(cache, AppJsUrl) # NoEntry

----------------------------------------------------------------------------
(* The lifecycle: C19, C20 *)

\* Promise.all of the install handler has settled and skipWaiting is called.
InstallCompletes == phase = "installing" /\ phase' = "installed"

\* The core addresses whose fetch gave a response with response.ok.
FetchedOk ==
    {task[t].url : t \in {x \in Tasks : /\ task[x].kind = "install"
                                        /\ ~task[x].net.failed
                                        /\ Ok(task[x].net)}}
\* Those of them whose response the cache stores: not a partial one.
FetchedFull ==
    {task[t].url : t \in {x \in Tasks : /\ task[x].kind = "install"
                                        /\ ~task[x].net.failed
                                        /\ Ok(task[x].net)
                                        /\ task[x].net.status # 206}}

\* C19 (as claimed): whichever fetches fail or are not ok, install completes
\* and calls skipWaiting, and the cache then holds exactly the core addresses
\* whose fetch gave an ok response.
C19_TolerantInstall ==
    /\ <>(phase = "installed")
    /\ [][InstallCompletes => SeqRange(CacheKeys(cache')) = FetchedOk]_vars

\* C19 (amended): install completes and calls skipWaiting, and the cache then
\* holds exactly the core addresses whose fetch gave an ok response that is
\* not partial (206), each with that response.
C19_TolerantInstallAmended ==
    /\ <>(phase = "installed")
    /\ [][InstallCompletes =>
             /\ SeqRange(CacheKeys(cache')) = FetchedFull
             /\ \A t \in Tasks : task[t].url \in FetchedFull =>
                    CacheMatch(cache', task[t].url) =
                        Entry(task[t].url, task[t].net.status, task[t].net.body)
         ]_vars

\* C19 witness: install is complete, no event handled yet; the fetch of
\* index.html was not stored, the video was.
C19_Witness ==
    /\ phase = "installed"
    /\ started = 0
    /\ CacheKeys(cache) = <<VideoUrl>>

\* C20: once the activate handler has completed and claimed the clients, no
\* cache of another name than CACHE_NAME exists and none of its deletes is
\* pending; and the cache CACHE_NAME, once install has opened it, is never deleted.
C20_ActivationCleanup ==
    /\ phase = "activated" =>
          /\ generations \cap OldGenerations = {}
          /\ activate.deleting = {}
    /\ phase # "parsed" => CACHE_NAME \in generations

\* C20 witness: the handler read the keys of three old caches and the
\* current one, all three deletes are done, the claim comes next.
C20_Witness ==
    /\ phase = "activating"
    /\ activate.keys = OldGenerations \cup {CACHE_NAME}
    /\ activate.deleting = {}
    /\ generations = {CACHE_NAME}

----------------------------------------------------------------------------
(* Failures: C21, C22 *)

\* Task t, a fetch handler of a GET request, takes a step.
HandlerStep(t) ==
    /\ task[t].kind = "fetch" /\ task[t].req.method = "GET"
    /\ task[t].pc # "done"
    /\ task'[t] # task[t]

\* A response the handler can resolve with: one of the network, one made from
\* a cache entry or a record, a slice, or one it synthesizes.
IsResponse(r) == r # NoResponse /\ r.status \in {200, 206, 404, 416, 503}

C22_StoreFailureTolerated ==
    \A t \in Tasks :
        (task[t].kind = "fetch" /\ task[t].req.method = "GET") =>
            task[t].resp # Rejected

----------------------------------------------------------------------------
(* The strategies one by one: C23 - C26 *)

\* Task t takes a step and is, after it, a fetch handler in flight or just done.
StepOf(t) == task'[t] # task[t] /\ task'[t].kind = "fetch"

RefreshSteps == {"refresh_fetch", "refresh_put", "refresh_pin"}

\* C24: a media request whose address has an entry gets the slice of the entry
\* found at the lookup, before the network is asked, whatever the network does
\* afterwards; the refresh replaces the entry and writes the marker with the
\* current time when the network gave status 200, and changes neither the
\* cache nor the markers otherwise.
C24_MediaCacheHit ==
    [][\A t \in Tasks :
          LET url == task[t].url
              hit == CacheMatch(cache, url)
          IN /\ (StepOf(t) /\ task[t].pc = "media_match" /\ hit # NoEntry) =>
                   /\ task'[t].resp =
                          serveRangeFromFullResponse(EntryResponse(hit),
                                                     task[t].req.range).resp
                   /\ task'[t].pc = "refresh_fetch"
                   /\ task'[t].net = NoNet
                   /\ UNCHANGED <<storeVars, putLog>>
             /\ (StepOf(t) /\ task[t].pc \in RefreshSteps) =>
                   /\ task'[t].resp = task[t].resp
                   /\ task'[t].pc \in RefreshSteps \cup {"done"}
                   /\ api' = api
             /\ (StepOf(t) /\ task[t].pc = "refresh_fetch") =>
                   /\ UNCHANGED <<storeVars, putLog>>
                   /\ (task'[t].pc = "refresh_put") <=>
                         (~task'[t].net.failed /\ task'[t].net.status = 200)
             /\ (StepOf(t) /\ task[t].pc = "refresh_put") =>
                   /\ CacheMatch(cache', url) = Entry(url, 200, task[t].net.body)
                   /\ pins' = pins /\ task'[t].pc = "refresh_pin"
             /\ (StepOf(t) /\ task[t].pc = "refresh_pin") =>
                   /\ url \in DOMAIN pins' /\ pins'[url] = now
                   /\ cache' = cache
      ]_vars

\* C24 witness: a media request found the longer body cached and answered with
\* it; its refresh got the shorter body with status 200, which is now the
\* entry, and the address is marked.
C24_Witness ==
    \E t \in Tasks :
        /\ task[t].kind = "fetch" /\ task[t].strategy = "media" /\ task[t].pc = "done"
        /\ task[t].cached = Entry(VideoUrl, 200, Payload(MaxSize))
        /\ task[t].resp.body = Payload(MaxSize)
        /\ task[t].net.status = 200 /\ task[t].net.body = Payload(MaxSize - 1)
        /\ CacheMatch(cache, VideoUrl) = Entry(VideoUrl, 200, Payload(MaxSize - 1))
        /\ VideoUrl \in DOMAIN pins

\* The steps of the static-asset branch, and the steps of a trim.
StaticSteps == {"static_match", "static_fetch", "static_put", "static_rematch"}
TrimPcs == {"trim_keys", "trim_loop", "idb_getall", "idb_delete"}

\* The part of the static-asset policy that does not depend on which responses
\* are stored: a cached entry is the response, chosen at the lookup and never
\* replaced; the cache changes only at the put, and only with an ok response;
\* no marker, no record, no trim; with nothing cached, a network response is
\* the response.
StaticPolicy(t) ==
    LET url == task[t].url
        hit == CacheMatch(cache, url)
    IN /\ (task[t].pc = "static_match" /\ hit # NoEntry) =>
             /\ task'[t].resp = EntryResponse(hit)
             /\ task'[t].net = NoNet
       /\ (task[t].pc \in StaticSteps /\ task[t].cached # NoEntry) =>
             task'[t].resp = EntryResponse(task[t].cached)
       /\ task[t].pc \in StaticSteps =>
             /\ pins' = pins /\ api' = api
             /\ task'[t].pc \in StaticSteps \cup {"done"}
             /\ cache' # cache => (task[t].pc = "static_put" /\ Ok(task[t].net))
       /\ (task[t].pc \in {"static_fetch", "static_put"} /\ task'[t].pc = "done"
              /\ task[t].cached = NoEntry /\ ~task'[t].net.failed) =>
             task'[t].resp = AsResponse(task'[t].net)
       /\ (task[t].pc = "static_fetch" /\ ~task'[t].net.failed /\ Ok(task'[t].net)) =>
             task'[t].pc = "static_put"

\* C25: the static-asset policy, and every ok network response is the entry
\* of the address after the put.
C25_StaticRevalidate ==
    [][\A t \in Tasks :
          StepOf(t) =>
              /\ StaticPolicy(t)
              /\ task[t].pc = "static_put" =>
                    CacheMatch(cache', task[t].url) =
                        Entry(task[t].url, task[t].net.status, task[t].net.body)
      ]_vars

\* C25 amended: the static-asset policy, and every ok network response that
\* is not partial (status 206) is the entry of the address after the put; a
\* partial one is returned and the cache left as it was.
C25_StaticRevalidateAmended ==
    [][\A t \in Tasks :
          StepOf(t) =>
              /\ StaticPolicy(t)
              /\ (task[t].pc = "static_put" /\ task[t].net.status # 206) =>
                    CacheMatch(cache', task[t].url) =
                        Entry(task[t].url, task[t].net.status, task[t].net.body)
              /\ (task[t].pc = "static_put" /\ task[t].net.status = 206) =>
                    cache' = cache
      ]_vars

\* C25 witness: two static-asset requests for the script have ended: one found
\* nothing cached and got the network's 200, which is stored; the other got
\* the stored entry and its refresh a 200 too.
C25_Witness ==
    \E t, o \in Tasks :
        /\ task[t].strategy = "static-asset" /\ task[t].pc = "done"
        /\ task[t].cached = Entry(AppJsUrl, 200, Payload(1))
        /\ task[t].resp = EntryResponse(task[t].cached)
        /\ task[t].net.status = 200
        /\ task[o].strategy = "static-asset" /\ task[o].pc = "done"
        /\ task[o].cached = NoEntry /\ task[o].net.status = 200
        /\ task[o].resp = AsResponse(task[o].net)
        /\ CacheMatch(cache, AppJsUrl) # NoEntry

\* The steps of trimIDBStore.
IdbTrimPcs == {"idb_getall", "idb_delete"}

\* C26: a structured-data request whose network call succeeds gets the network
\* response as it is, whether the body decodes or not and whether the record
\* write succeeds or not; the record of the address is written, with the
\* decoded value and the current time, exactly when the status is ok and the
\* body decodes to a value that is not null; the trim of the records starts
\* only after such a write.
C26_StructuredSuccess ==
    [][\A t \in Tasks :
          LET url == task[t].url
              net == task'[t].net
              record == ApiRecord(JsonParse(task[t].net.body), now)
          IN (StepOf(t) /\ task[t].strategy = "structured-data") =>
              /\ (task[t].pc = "api_fetch" /\ ~net.failed) =>
                    /\ api' = api
                    /\ (task'[t].pc = "api_put") <=>
                          (Ok(net) /\ JsonParse(net.body) # "null")
                    /\ task'[t].pc # "api_put" =>
                          (task'[t].pc = "done" /\ task'[t].resp = AsResponse(net))
              /\ task[t].pc = "api_put" =>
                    /\ task'[t].resp = AsResponse(task[t].net)
                    /\ \/ /\ api' = IdbPut(api, url, record)
                          /\ task'[t].pc = "idb_getall"
                          /\ task'[t].maxEntries = ApiMaxEntries
                       \/ /\ api' = api
                          /\ task'[t].pc = "done"
              /\ task[t].pc \in IdbTrimPcs => task'[t].resp = task[t].resp
              /\ (task'[t].pc \in IdbTrimPcs /\ task[t].pc \notin IdbTrimPcs) =>
                    (task[t].pc = "api_put" /\ url \in DOMAIN api' /\ api'[url] = record)
              /\ api' # api => task[t].pc \in {"api_put", "idb_delete"}
      ]_vars

\* C26 witness: two structured-data requests got a 200 from the network. The
\* body of one decodes: it ended after the write and the trim, and the record
\* holds the decoded value. The write of the other failed: it has the network
\* response all the same.
C26_Witness ==
    \E t \in Tasks :
        /\ task[t].strategy = "structured-data" /\ task[t].pc = "done"
        /\ task[t].net.status = 200 /\ task[t].net.body = JsonArrayBody
        /\ task[t].resp = AsResponse(task[t].net)
        /\ \E u \in DOMAIN api : u # task[t].url /\ api[u].data = "{}"
        /\ task[t].url \notin DOMAIN api

----------------------------------------------------------------------------
(* The database handle and the install prompt: C27, C28 *)

\* C27: however the calls of getDB interleave and follow one another, the
\* database is opened at most once, and every caller that has received
\* something has received what the first open call gave: its handle, the same
\* for all.
C27_OpenedOnce ==
    /\ Len(db.opens) <= 1
    /\ \A c \in Callers :
          /\ db.caller[c].pc = "await" => db.caller[c].promise = 1
          /\ db.caller[c].received # NoHandle =>
                /\ db.opens[1] # "pending"
                /\ db.caller[c].received =
                      IF db.opens[1] = "success" THEN 1 ELSE OpenFailed
    /\ \A c, d \in Callers :
          (db.caller[c].received # NoHandle /\ db.caller[d].received # NoHandle) =>
              db.caller[c].received = db.caller[d].received

\* C27 witness: every caller has called getDB MaxCalls times, and each has
\* the handle of the one open.
C27_Witness ==
    /\ Len(db.opens) = 1
    /\ \A c \in Callers :
          /\ db.caller[c].calls = MaxCalls /\ db.caller[c].pc = "idle"
          /\ db.caller[c].received = 1

\* C28: the native dialog is never put on the screen within
\* PROMPT_COOLDOWN_DAYS days of the last recorded outcome.
C28_PromptCooldown ==
    [][(pwa'.dialog /\ ~pwa.dialog) =>
          (pwa.st.lastShown = 0 \/ pwa.clock >= pwa.st.lastShown + PROMPT_COOLDOWN_DAYS)
      ]_vars

----------------------------------------------------------------------------
(* Races of the trim with the markers: C29, C30 *)

\* A trim deletes the entry of u in this step.
TrimDeletes(u) ==
    /\ CacheMatch(cache, u) # NoEntry /\ CacheMatch(cache', u) = NoEntry
    /\ \E t \in Tasks : task[t].pc = "trim_loop" /\ task'[t] # task[t]

\* C29: with pin commands and media handlers running together, a trim never
\* deletes the entry of an address that has a marker at that moment.
C29_PinnedSurviveTrim ==
    [][\A u \in StoredUrls : TrimDeletes(u) => u \notin DOMAIN pins]_vars

\* C30: with pin commands and media handlers running together, when the
\* put-pin-trim task of a media cache miss ends, the address has an entry and
\* a marker.
C30_AutoPinKept ==
    [][\A t \in Tasks :
          MissTaskEnds(t) =>
              /\ CacheMatch(cache', task[t].url) # NoEntry
              /\ task[t].url \in DOMAIN pins'
      ]_vars

----------------------------------------------------------------------------
(* Trims running together: C31, C32 *)

\* C31: with pin commands and media handlers running together and no delete
\* command, no delete of a trim leaves the cache with fewer than the limit of
\* entries.
C31_NoOverEviction ==
    [][(\E u \in StoredUrls : TrimDeletes(u)) => Len(cache') >= TrimMaxItems]_vars

\* C32: with structured-data handlers running together, the deletes of a
\* record trim remove no record that was written after the trim read the
\* store: every record they remove still has the timestamp the trim read.
C32_TrimKeepsFresher ==
    [][\A t \in Tasks :
          (task[t].pc = "idb_delete" /\ task'[t] # task[t]) =>
              \A j \in 1..Len(task[t].toDelete) :
                  LET item == task[t].toDelete[j] IN
                     item.url \in DOMAIN api =>
                         api[item.url].timestamp = item.timestamp
      ]_vars

----------------------------------------------------------------------------
(* Statuses and failures left over: C33, C34 *)

\* C33: a media request whose address has no entry and whose network call
\* gives a status other than 200 and 206 gets that network response, and the
\* step writes no entry and no marker.
C33_MediaMissOtherStatus ==
    [][\A t \in Tasks :
          (StepOf(t) /\ task[t].pc = "media_fetch" /\ ~task'[t].net.failed
             /\ task'[t].net.status \notin {200, 206}) =>
              /\ task'[t].pc = "done"
              /\ task'[t].resp = AsResponse(task'[t].net)
              /\ UNCHANGED <<storeVars, putLog>>
      ]_vars

\* C34: a call of getDB made after the open has failed starts a new open.
C34_FailedOpenRetried ==
    [][\A c \in Callers :
          (/\ db.caller[c].pc = "idle" /\ db'.caller[c].pc = "await"
           /\ db.dbPromise # 0
           /\ db.opens[db.dbPromise] = "error") =>
              /\ Len(db'.opens) = Len(db.opens) + 1
              /\ db'.caller[c].promise = Len(db'.opens)
      ]_vars

====
